---- MODULE Spec2Model ----
(***************************************************************************)
(* State-machine model of TwitterService (src/src/TwitterService.ts) and   *)
(* of the forwarding subscribers LLMToolAdapter registers on it            *)
(* (src/src/LLMToolAdapter.ts).                                            *)
(*                                                                         *)
(* JavaScript runs every handler to completion up to its next `await`.     *)
(* Each action below is one such synchronous segment.  `running` names the *)
(* pass that is in the middle of a segment the model splits in two (so     *)
(* that the order of its effects is visible); nothing else may act then.   *)
(* `inTask` names the pass that is between its search response and its     *)
(* end: its awaits are awaits of already settled promises, so only         *)
(* microtasks (calls made by user code) can interleave, never a timer tick *)
(* or a network response.                                                  *)
(*                                                                         *)
(* User-supplied subscribers ("direct") return normally; the subscribers   *)
(* the repository itself registers (LLMToolAdapter) behave as their code   *)
(* does, including the throw of emit('error', ...) without a listener.     *)
(***************************************************************************)
EXTENDS Integers, Sequences, FiniteSets, TLC

\* ------------------------------------------------------------------ bounds
MaxAppends == 52      \* SpecThread: direct addMessageToThread calls per thread
MaxLimit == 3         \* SpecThread: largest explicitly configured threadHistoryLimit
MaxTweets == 3        \* SpecPoll: mentions the remote ever holds
MaxPasses == 2        \* SpecPoll: polling passes ever begun
MaxPollStarts == 1    \* SpecPoll: start() calls ever made
MaxOps == 2           \* SpecWrite: write calls ever made
MaxSubs == 2          \* SpecWrite: direct subscribers ever registered
MaxStarts == 2        \* SpecLife: start() calls ever made
MaxLifePasses == 3    \* SpecLife: polling passes ever begun
MaxLifeTweets == 1    \* SpecLife: mentions the remote ever holds
MaxReadOps == 2       \* SpecRead: getMyProfile / searchTweets calls
MaxBadTweets == 3     \* SpecMalformed: records the platform holds
MaxBadPasses == 3     \* SpecMalformed: polling passes, run one after another
MaxFieldTweets == 2   \* SpecFields: records the platform holds
MaxFieldPasses == 2   \* SpecFields: polling passes, run one after another
MaxRetryLimit == 2    \* SpecRetry: largest explicitly passed maxRetries
MaxAdapterCalls == 2  \* SpecAdapter: adapter method calls ever made
MaxAdapterStarts == 1 \* SpecAdapter: adapter.start() calls ever made
MaxAdapterPasses == 2 \* SpecAdapter: polling passes ever begun
MaxAdapterTweets == 1 \* SpecAdapter: mentions the remote ever holds
MaxBusSubs == 3       \* SpecBus: subscribers per event name
MaxBatchTweets == 3   \* SpecBatch: mentions the remote ever holds
MaxBatchPasses == 2   \* SpecBatch: polling passes ever begun
MaxBatchSubs == 1     \* SpecBatch: subscribers per event name
MaxBurstBacklog == 2  \* SpecBurst: a burst arrives only while fewer mentions exist
MaxBurstPasses == 3   \* SpecBurst: polling passes, run one after another
MaxMixedTweets == 1   \* SpecMixed: mentions the remote ever holds
MaxMixedStarts == 1   \* SpecMixed: start() calls ever made
MaxMixedPasses == 2   \* SpecMixed: polling passes ever begun
MaxMixedOps == 2      \* SpecMixed: request operations ever called
MaxBusOps == 2        \* SpecBus: replyToTweet calls ever made

\* ------------------------------------------------------- program constants
DefaultMaxRetries == 5
DefaultBaseDelay == 5000
ResetMargin == 5000
MsPerSecond == 1000
DefaultThreadHistoryLimit == 50
MaxResults == 100
RateLimitStatus == 429

\* ------------------------------------------------------------------ values
Undefined == -1                 \* an absent optional id / number
Sentinel == 0                   \* the id string "0"
NoString == "undefined"         \* an absent optional string
Me == "me"                      \* id of the authenticated account
MeName == "me_name"             \* its username
Other == "alice"
EmptyId == -2                   \* the empty string in an id field
None == 0                       \* no pass (pass indices start at 1)
ThreadIds == {1, 2}
EventNames == {"newMention", "rateLimitWarning", "pollError", "tweetError"}

E429 == [name |-> "TooManyRequests", status |-> RateLimitStatus]
E500 == [name |-> "ApiFailure", status |-> Undefined]
ErrUnhandled == [name |-> "ERR_UNHANDLED_ERROR", status |-> Undefined]
ErrListener == [name |-> "ListenerError", status |-> Undefined]
ApiErrors == {E429, E500}
ResetTimes == {Undefined, 1, 60}   \* x-rate-limit-reset: absent, or epoch seconds
NoError == [name |-> "none", status |-> Undefined]

VARIABLES
  config,          \* this.config after the constructor filled the defaults
  threads,         \* this.threads : threadId -> history (absent = not in DOMAIN)
  appended,        \* history variable: per thread, appends since the Map was last cleared
  lastMentionId,   \* the cursor
  currentUserId, currentUsername,
  pollInterval,    \* this.pollInterval: the timer handle, or Undefined
  timers,          \* the intervals armed in the runtime (setInterval minus clearInterval)
  listeners,       \* this.emitter: event name -> listeners in subscription order
  adapterErr,      \* the adapter's own emitter has an 'error' listener
  remote,          \* the platform: every mention posted so far, oldest first
  passes,          \* every pollForMentions invocation (raw, caught, seen,
                   \* cursorAtBegin, cursorAfter and before are history fields;
                   \* before: the passes that had ended when this one began)
  starts,          \* every start() invocation (failure: what users/me raised;
                   \* stopped: history field, stop() was called after it began;
                   \* emitted: history field, Len(events) when it was called)
  ops,             \* every replyToTweet / tweet invocation
  running, inTask, \* see the module comment
  events,          \* history variable: every emit of the service, in order
  overlapped,      \* history variable: two passes were in flight at once
  adapterCalls,    \* every call of an LLMToolAdapter method, with its response
  retry            \* the retryWithBackoff call of the API test scripts

vars == <<config, threads, appended, lastMentionId, currentUserId, currentUsername,
          pollInterval, timers, listeners, adapterErr, remote, passes, starts, ops,
          running, inTask, events, overlapped, adapterCalls, retry>>

svcVars == <<lastMentionId, currentUserId, currentUsername, pollInterval, timers,
             listeners, adapterErr, remote, passes, starts, ops, running, inTask,
             events, overlapped>>

\* ------------------------------------------------------------ ThreadStore
\* Array.prototype.slice(-k) for k > 0: the last k elements
SliceLast(s, k) ==
  IF Len(s) <= k THEN s ELSE SubSeq(s, Len(s) - k + 1, Len(s))

\* getThreadContext: the existing history, or a fresh empty one
getThreadContext(th, threadId) ==
  IF threadId \in DOMAIN th THEN th[threadId] ELSE << >>

\* JavaScript truthiness of a number
TruthyNum(n) == n # 0

\* faulty variant: one limit for the whole store, every thread is cut once
\* the appended one exceeds it
addMessageToThread_Shared(th, limit, threadId, message) ==
  LET pushed == Append(getThreadContext(th, threadId), message)
      over == TruthyNum(limit) /\ Len(pushed) > limit
  IN  [t \in (DOMAIN th) \cup {threadId} |->
         IF t = threadId
         THEN (IF over THEN SliceLast(pushed, limit) ELSE pushed)
         ELSE (IF over /\ Len(th[t]) > 0 THEN Tail(th[t]) ELSE th[t])]

\* addMessageToThread: push, then cut to the last `limit` entries
\* when the limit is truthy and exceeded
addMessageToThread(th, limit, threadId, message) ==
  LET pushed == Append(getThreadContext(th, threadId), message)
      hist == IF TruthyNum(limit) /\ Len(pushed) > limit
              THEN SliceLast(pushed, limit)
              ELSE pushed
  IN  [t \in (DOMAIN th) \cup {threadId} |-> IF t = threadId THEN hist ELSE th[t]]

\* history variable kept next to addMessageToThread
CountAppend(ap, threadId) ==
  [t \in (DOMAIN ap) \cup {threadId} |->
     IF t = threadId THEN (IF t \in DOMAIN ap THEN ap[t] ELSE 0) + 1 ELSE ap[t]]

Appended(t) == IF t \in DOMAIN appended THEN appended[t] ELSE 0

\* constructor: threadHistoryLimit: config.threadHistoryLimit ?? 50
DefaultedLimit(l) == IF l = Undefined THEN DefaultThreadHistoryLimit ELSE l

\* constructor: the configuration with its defaults filled in
Constructor(limit, sinceId, own) ==
  [threadHistoryLimit |-> DefaultedLimit(limit),
   sinceId |-> sinceId,
   includeOwnTweets |-> own]

\* ------------------------------------------------------------- truthiness
TruthyId(x) == x # Undefined            \* an id string, "0" included, is truthy
TruthyStr(x) == x # NoString /\ x # ""

\* --------------------------------------------------------------- EventBus
\* What a listener throws when called (NoError: it returns).
\* LLMToolAdapter's forwarding subscriber for pollError / tweetError calls
\* this.emit('error', {...}) on the adapter's own emitter, and emit('error')
\* without an 'error' listener throws ERR_UNHANDLED_ERROR.  A "thrower" is a
\* user subscriber that throws.
ListenerThrows(kind, name, aErr) ==
  IF kind = "adapter" /\ name \in {"pollError", "tweetError"} /\ ~aErr
  THEN ErrUnhandled
  ELSE IF kind = "thrower" THEN ErrListener
  ELSE NoError

\* emitter.emit(name, payload): the listeners are called in subscription
\* order; the first throw leaves emit (NoError: every listener returned)
EmitThrows(ls, name, aErr) ==
  LET bad == {i \in 1..Len(ls[name]) : ListenerThrows(ls[name][i], name, aErr) # NoError}
  IN  IF bad = {} THEN NoError
      ELSE ListenerThrows(ls[name][CHOOSE i \in bad : \A j \in bad : i <= j], name, aErr)

\* emitter.emit(name, payload): how many of the listeners of `name` are called,
\* in subscription order: all of them, or those up to the first that throws
CalledCount(ls, name, aErr) ==
  LET bad == {i \in 1..Len(ls[name]) : ListenerThrows(ls[name][i], name, aErr) # NoError}
  IN  IF bad = {} THEN Len(ls[name]) ELSE CHOOSE i \in bad : \A j \in bad : i <= j

\* one emit in the history: the event, who emitted it, the listeners of its
\* name at that moment and how many of them were called
Logged(name, payload, src) ==
  [name |-> name, payload |-> payload, src |-> src,
   listeners |-> listeners[name],
   called |-> CalledCount(listeners, name, adapterErr)]

\* ----------------------------------------------------------------- remote
Min(a, b) == IF a < b THEN a ELSE b

Reverse(s) == [i \in 1..Len(s) |-> s[Len(s) - i + 1]]

\* v2.search with since_id and max_results: the mentions newer than
\* since_id, newest first, at most max_results of them
Search(rem, since, maxResults) ==
  LET n == Len(rem)
      lo == IF since = Undefined THEN 0 ELSE since
      k == Min(n - lo, maxResults)
  IN  [j \in 1..k |-> rem[n - j + 1]]

\* -------------------------------------------------------- pollForMentions
\* faulty variant: the tracked cursor is ignored, only the configured seed is used
SinceParam_SeedOnly(cursor, cfgSinceId) ==
  IF TruthyId(cfgSinceId) /\ cfgSinceId # Sentinel THEN cfgSinceId ELSE Undefined

\* the since_id of the search request (undefined: none)
SinceParam(cursor, cfgSinceId) ==
  IF TruthyId(cursor) THEN cursor
  ELSE IF TruthyId(cfgSinceId) /\ cfgSinceId # Sentinel THEN cfgSinceId
  ELSE Undefined

\* faulty variant: the cursor is taken from the last (oldest) element
NewCursor_Oldest(tweets) == tweets[Len(tweets)].id

\* lastMentionId = tweets[0].id
NewCursor(tweets) == tweets[1].id

\* faulty variant: the batch is processed as received, newest first
tweetsToProcess_NoReverse(tweets) == tweets

\* [...tweets].reverse()
tweetsToProcess(tweets) == Reverse(tweets)

\* faulty variant: own tweets are skipped whatever includeOwnTweets says
SkipOwn_IgnoresFlag(tweet, userId, includeOwn) == tweet.author_id = userId

\* tweet.author_id === this.currentUserId && !this.config.includeOwnTweets
SkipOwn(tweet, userId, includeOwn) == tweet.author_id = userId /\ ~includeOwn

\* the TweetV2 handed to handleMention
tweetData(tweet) ==
  [text |-> IF TruthyStr(tweet.text) THEN tweet.text ELSE "",
   id |-> tweet.id,
   conversation_id |-> IF TruthyId(tweet.conversation_id)
                       THEN tweet.conversation_id ELSE tweet.id,
   author_id |-> IF TruthyStr(tweet.author_id) THEN tweet.author_id ELSE ""]

\* faulty variant: the fields are copied without their fallbacks
mentionEvent_NoFallback(tweet) ==
  [message |-> tweet.text,
   threadId |-> tweet.conversation_id,
   userId |-> tweet.author_id,
   tweetId |-> tweet.id]

\* handleMention: the MentionEvent built from the tweet
mentionEvent(tweet) ==
  [message |-> IF TruthyStr(tweet.text) THEN tweet.text ELSE "",
   threadId |-> IF TruthyId(tweet.conversation_id)
                THEN tweet.conversation_id ELSE tweet.id,
   userId |-> IF TruthyStr(tweet.author_id) THEN tweet.author_id ELSE "unknown",
   tweetId |-> tweet.id]

\* error?.data?.status === 429
IsRateLimited(error) == error.status = RateLimitStatus

\* faulty variant: every failure of a pass is reported as a pollError
PollCatchEvent_NoClassify(error) ==
  [name |-> "pollError", payload |-> [error |-> error]]

\* the event the catch block of pollForMentions emits
PollCatchEvent(error) ==
  IF IsRateLimited(error)
  THEN [name |-> "rateLimitWarning",
        payload |-> [tweetId |-> EmptyId, message |-> "", error |-> error]]
  ELSE [name |-> "pollError", payload |-> [error |-> error]]

\* faulty variant: the rate-limit warning of a reply carries an empty tweetId,
\* as the one of pollForMentions does
ReplyCatchEvent_EmptyId(tweetId, message, error) ==
  IF IsRateLimited(error)
  THEN [name |-> "rateLimitWarning",
        payload |-> [tweetId |-> EmptyId, message |-> message, error |-> error]]
  ELSE [name |-> "tweetError",
        payload |-> [tweetId |-> tweetId, message |-> message, error |-> error]]

\* the event the catch block of replyToTweet emits
ReplyCatchEvent(tweetId, message, error) ==
  IF IsRateLimited(error)
  THEN [name |-> "rateLimitWarning",
        payload |-> [tweetId |-> tweetId, message |-> message, error |-> error]]
  ELSE [name |-> "tweetError",
        payload |-> [tweetId |-> tweetId, message |-> message, error |-> error]]

\* the event the catch block of tweet emits
TweetCatchEvent(text, error) ==
  IF IsRateLimited(error)
  THEN [name |-> "rateLimitWarning",
        payload |-> [tweetId |-> EmptyId, message |-> text, error |-> error]]
  ELSE [name |-> "tweetError", payload |-> [message |-> text, error |-> error]]

\* `throw error` at the end of a catch block: reached only when the emit
\* before it returned; otherwise the listener's error leaves the function
Rethrown(error, thrown) == IF thrown # NoError THEN thrown ELSE error

\* ------------------------------------------------------- retryWithBackoff
RECURSIVE Pow2(_)
Pow2(k) == IF k = 0 THEN 1 ELSE 2 * Pow2(k - 1)

\* no retryWithBackoff call has been made
RetryIdle == [pc |-> "idle"]

\* maxRetries: number = 5
DefaultedMaxRetries(m) == IF m = Undefined THEN DefaultMaxRetries ELSE m

\* baseDelay: number = 5000
DefaultedBaseDelay(d) == IF d = Undefined THEN DefaultBaseDelay ELSE d

\* faulty variant: the retry count is compared with <=
ShouldRetry_OffByOne(error, retries, maxRetries) ==
  IsRateLimited(error) /\ retries <= maxRetries

\* error?.data?.status === 429 && retries < maxRetries
ShouldRetry(error, retries, maxRetries) ==
  IsRateLimited(error) /\ retries < maxRetries

\* faulty variant: the backoff grows linearly
WaitTime_Linear(resetTime, now, baseDelay, retries) ==
  IF resetTime # Undefined
  THEN resetTime * MsPerSecond - now + ResetMargin
  ELSE baseDelay * (retries + 1)

\* resetTime ? Number(resetTime) * 1000 - Date.now() + 5000
\*           : baseDelay * Math.pow(2, retries)
WaitTime(resetTime, now, baseDelay, retries) ==
  IF resetTime # Undefined
  THEN resetTime * MsPerSecond - now + ResetMargin
  ELSE baseDelay * Pow2(retries)

\* ------------------------------------------------------------------- Init
NoListeners == [n \in EventNames |-> << >>]

\* LLMToolAdapter's constructor registers one forwarding subscriber per event
AdapterListeners == [n \in EventNames |-> <<"adapter">>]

\* the state after `new TwitterService(config)`, or after
\* `new LLMToolAdapter({twitterConfig: config})` when `adapter`
InitWith(limits, sinceIds, owns, adapters) ==
  /\ \E l \in limits, sid \in sinceIds, own \in owns, ad \in adapters :
        /\ config = Constructor(l, sid, own) @@ [adapter |-> ad]
        /\ lastMentionId = sid
        /\ listeners = IF ad THEN AdapterListeners ELSE NoListeners
  /\ threads = << >>
  /\ appended = << >>
  /\ currentUserId = NoString
  /\ currentUsername = NoString
  /\ pollInterval = Undefined
  /\ timers = {}
  /\ adapterErr = FALSE
  /\ remote = << >>
  /\ passes = << >>
  /\ starts = << >>
  /\ ops = << >>
  /\ running = None
  /\ inTask = None
  /\ events = << >>
  /\ overlapped = FALSE
  /\ adapterCalls = << >>
  /\ retry = RetryIdle

\* ------------------------------------------------------------ environment
\* somebody posts a mention of the account; ids grow with time
RemotePost(author, conv) ==
  /\ running = None /\ inTask = None
  /\ remote' = Append(remote, [id |-> Len(remote) + 1, text |-> "hi",
                               author_id |-> author, conversation_id |-> conv])
  /\ UNCHANGED <<retry, adapterCalls, config, threads, appended, lastMentionId, currentUserId,
                 currentUsername, pollInterval, timers, listeners, adapterErr,
                 passes, starts, ops, running, inTask, events, overlapped>>

\* n mentions of the account are posted before the next fetch
RemotePostMany(n, author, conv) ==
  /\ running = None /\ inTask = None
  /\ remote' = remote \o [i \in 1..n |->
                            [id |-> Len(remote) + i, text |-> "hi",
                             author_id |-> author, conversation_id |-> conv]]
  /\ UNCHANGED <<retry, adapterCalls, config, threads, appended, lastMentionId, currentUserId,
                 currentUsername, pollInterval, timers, listeners, adapterErr,
                 passes, starts, ops, running, inTask, events, overlapped>>

\* the platform returns a record without an id field
RemotePostNoId(author, conv) ==
  /\ running = None /\ inTask = None
  /\ remote' = Append(remote, [id |-> Undefined, text |-> "hi",
                               author_id |-> author, conversation_id |-> conv])
  /\ UNCHANGED <<retry, adapterCalls, config, threads, appended, lastMentionId, currentUserId,
                 currentUsername, pollInterval, timers, listeners, adapterErr,
                 passes, starts, ops, running, inTask, events, overlapped>>

\* the platform returns a record with any of its fields missing
RemotePostRaw(hasId, text, author, conv) ==
  /\ running = None /\ inTask = None
  /\ remote' = Append(remote, [id |-> IF hasId THEN Len(remote) + 1 ELSE Undefined,
                               text |-> text, author_id |-> author,
                               conversation_id |-> conv])
  /\ UNCHANGED <<retry, adapterCalls, config, threads, appended, lastMentionId, currentUserId,
                 currentUsername, pollInterval, timers, listeners, adapterErr,
                 passes, starts, ops, running, inTask, events, overlapped>>

DirectSubs ==
  LET RECURSIVE cnt(_)
      cnt(S) == IF S = {} THEN 0
                ELSE LET n == CHOOSE n \in S : TRUE
                     IN  Cardinality({i \in 1..Len(listeners[n]) :
                                        listeners[n][i] = "direct"}) + cnt(S \ {n})
  IN  cnt(EventNames)

\* service.on(name, listener) by user code
Subscribe(name) ==
  /\ running = None
  /\ listeners' = [listeners EXCEPT ![name] = Append(@, "direct")]
  /\ UNCHANGED <<retry, adapterCalls, config, threads, appended, lastMentionId, currentUserId,
                 currentUsername, pollInterval, timers, adapterErr, remote,
                 passes, starts, ops, running, inTask, events, overlapped>>

\* service.on(name, listener) by user code, with a listener that throws
SubscribeThrower(name) ==
  /\ running = None
  /\ listeners' = [listeners EXCEPT ![name] = Append(@, "thrower")]
  /\ UNCHANGED <<retry, adapterCalls, config, threads, appended, lastMentionId, currentUserId,
                 currentUsername, pollInterval, timers, adapterErr, remote,
                 passes, starts, ops, running, inTask, events, overlapped>>

\* adapter.on('error', listener) by user code
AdapterOnError ==
  /\ running = None
  /\ config.adapter
  /\ ~adapterErr
  /\ adapterErr' = TRUE
  /\ UNCHANGED <<retry, adapterCalls, config, threads, appended, lastMentionId, currentUserId,
                 currentUsername, pollInterval, timers, listeners, remote,
                 passes, starts, ops, running, inTask, events, overlapped>>

\* ------------------------------------------------- pollForMentions, begin
InFlight == {p \in 1..Len(passes) : passes[p].pc # "done"}

\* pollForMentions up to its first await: the identity lookup when no
\* username is cached, the search otherwise
NewPass(origin, username, cursor) ==
  [origin |-> origin,
   pc |-> IF TruthyStr(username) THEN "search" ELSE "lookup",
   since |-> IF TruthyStr(username) THEN SinceParam(cursor, config.sinceId)
             ELSE Undefined,
   raw |-> << >>, todo |-> << >>,
   caught |-> NoError, rejected |-> NoError,
   cursorAtBegin |-> IF TruthyStr(username) THEN cursor ELSE Undefined,
   seen |-> Undefined, cursorAfter |-> Undefined,
   before |-> {q \in 1..Len(passes) : passes[q].pc = "done"}]

\* the timer callback: () => this.pollForMentions()
Tick ==
  /\ running = None /\ inTask = None
  /\ timers # {}
  /\ passes' = Append(passes, NewPass("timer", currentUsername, lastMentionId))
  /\ overlapped' = (overlapped \/ InFlight # {})
  /\ UNCHANGED <<retry, adapterCalls, config, threads, appended, lastMentionId, currentUserId,
                 currentUsername, pollInterval, timers, listeners, adapterErr,
                 remote, starts, ops, running, inTask, events>>

\* service['pollForMentions']() called directly, as the live test does
ManualPoll ==
  /\ running = None
  /\ passes' = Append(passes, NewPass("manual", currentUsername, lastMentionId))
  /\ overlapped' = (overlapped \/ InFlight # {})
  /\ UNCHANGED <<retry, adapterCalls, config, threads, appended, lastMentionId, currentUserId,
                 currentUsername, pollInterval, timers, listeners, adapterErr,
                 remote, starts, ops, running, inTask, events>>

\* the catch block of pollForMentions, entered with `error` after the
\* events `evs` were emitted
PollCatch(p, error, evs) ==
  LET ev == PollCatchEvent(error)
      thrown == EmitThrows(listeners, ev.name, adapterErr)
  IN  /\ events' = Append(evs, Logged(ev.name, ev.payload, <<"pass", p>>))
      /\ passes' = [passes EXCEPT ![p].pc = "done", ![p].todo = << >>,
                                  ![p].caught = error, ![p].rejected = thrown]
      /\ running' = None
      /\ inTask' = None

\* users/me answers inside a pass
PollLookupOk(p) ==
  /\ running = None /\ inTask = None
  /\ p \in 1..Len(passes) /\ passes[p].pc = "lookup"
  /\ currentUsername' = MeName
  /\ currentUserId' = Me
  /\ passes' = [passes EXCEPT ![p].pc = "search",
                              ![p].since = SinceParam(lastMentionId, config.sinceId),
                              ![p].cursorAtBegin = lastMentionId]
  /\ UNCHANGED <<retry, adapterCalls, config, threads, appended, lastMentionId, pollInterval, timers,
                 listeners, adapterErr, remote, starts, ops, running, inTask,
                 events, overlapped>>

\* faulty variant: the failed lookup leaves the pass as a rejection, no event
PollLookupFail_Rethrows(p, error) ==
  /\ running = None /\ inTask = None
  /\ p \in 1..Len(passes) /\ passes[p].pc = "lookup"
  /\ passes' = [passes EXCEPT ![p].pc = "done", ![p].caught = error,
                              ![p].rejected = error]
  /\ UNCHANGED <<retry, adapterCalls, config, threads, appended, lastMentionId, currentUserId,
                 currentUsername, pollInterval, timers, listeners, adapterErr,
                 remote, starts, ops, running, inTask, events, overlapped>>

\* users/me fails inside a pass
PollLookupFail(p, error) ==
  /\ running = None /\ inTask = None
  /\ p \in 1..Len(passes) /\ passes[p].pc = "lookup"
  /\ PollCatch(p, error, events)
  /\ UNCHANGED <<retry, adapterCalls, config, threads, appended, lastMentionId, currentUserId,
                 currentUsername, pollInterval, timers, listeners, adapterErr,
                 remote, starts, ops, overlapped>>

\* faulty variant: a failed search cancels the timer (a circuit breaker)
PollSearchFail_Breaker(p, error) ==
  /\ running = None /\ inTask = None
  /\ p \in 1..Len(passes) /\ passes[p].pc = "search"
  /\ PollCatch(p, error, events)
  /\ timers' = {}
  /\ pollInterval' = Undefined
  /\ UNCHANGED <<retry, adapterCalls, config, threads, appended, lastMentionId, currentUserId,
                 currentUsername, listeners, adapterErr, remote, starts, ops,
                 overlapped>>

\* the search fails
PollSearchFail(p, error) ==
  /\ running = None /\ inTask = None
  /\ p \in 1..Len(passes) /\ passes[p].pc = "search"
  /\ PollCatch(p, error, events)
  /\ UNCHANGED <<retry, adapterCalls, config, threads, appended, lastMentionId, currentUserId,
                 currentUsername, pollInterval, timers, listeners, adapterErr,
                 remote, starts, ops, overlapped>>

\* faulty variant: an empty response clears the cursor
PollSearchEmpty_ClearsCursor(p) ==
  /\ running = None /\ inTask = None
  /\ p \in 1..Len(passes) /\ passes[p].pc = "search"
  /\ Len(Search(remote, passes[p].since, MaxResults)) = 0
  /\ lastMentionId' = Undefined
  /\ passes' = [passes EXCEPT ![p].pc = "done", ![p].seen = Len(remote),
                              ![p].cursorAfter = Undefined]
  /\ UNCHANGED <<retry, adapterCalls, config, threads, appended, currentUserId, currentUsername,
                 pollInterval, timers, listeners, adapterErr, remote, starts, ops,
                 running, inTask, events, overlapped>>

\* the search answers with no results: `data` missing, or an empty array
PollSearchEmpty(p) ==
  /\ running = None /\ inTask = None
  /\ p \in 1..Len(passes) /\ passes[p].pc = "search"
  /\ Len(Search(remote, passes[p].since, MaxResults)) = 0
  /\ passes' = [passes EXCEPT ![p].pc = "done", ![p].seen = Len(remote),
                              ![p].cursorAfter = lastMentionId]
  /\ UNCHANGED <<retry, adapterCalls, config, threads, appended, lastMentionId, currentUserId,
                 currentUsername, pollInterval, timers, listeners, adapterErr,
                 remote, starts, ops, running, inTask, events, overlapped>>

\* the search answers with a batch: the cursor moves, the batch is reversed
PollSearchResp(p) ==
  /\ running = None /\ inTask = None
  /\ p \in 1..Len(passes) /\ passes[p].pc = "search"
  /\ LET tweets == Search(remote, passes[p].since, MaxResults)
     IN  /\ Len(tweets) > 0
         /\ lastMentionId' = NewCursor(tweets)
         /\ passes' = [passes EXCEPT ![p].pc = "proc", ![p].raw = tweets,
                                     ![p].todo = tweetsToProcess(tweets),
                                     ![p].seen = Len(remote),
                                     ![p].cursorAfter = NewCursor(tweets)]
  /\ running' = p
  /\ inTask' = p
  /\ UNCHANGED <<retry, adapterCalls, config, threads, appended, currentUserId, currentUsername,
                 pollInterval, timers, listeners, adapterErr, remote, starts, ops,
                 events, overlapped>>

\* ------------------------------------------- pollForMentions, the batch
\* the loop skips a self-authored tweet and goes on without awaiting
PollSkip(p) ==
  /\ running \in {None, p} /\ inTask = p
  /\ passes[p].pc = "proc" /\ Len(passes[p].todo) > 0
  /\ SkipOwn(Head(passes[p].todo), currentUserId, config.includeOwnTweets)
  /\ passes' = [passes EXCEPT ![p].todo = Tail(@)]
  /\ running' = p
  /\ UNCHANGED <<retry, adapterCalls, config, threads, appended, lastMentionId, currentUserId,
                 currentUsername, pollInterval, timers, listeners, adapterErr,
                 remote, starts, ops, inTask, events, overlapped>>

\* faulty variant: the mention is published without the thread append
PollHandle_NoAppend(p) ==
  /\ running \in {None, p} /\ inTask = p
  /\ passes[p].pc = "proc" /\ Len(passes[p].todo) > 0
  /\ ~SkipOwn(Head(passes[p].todo), currentUserId, config.includeOwnTweets)
  /\ LET tweet == tweetData(Head(passes[p].todo))
         ev == mentionEvent(tweet)
     IN  /\ events' = IF TruthyId(tweet.id)
                      THEN Append(events, Logged("newMention", ev, <<"pass", p>>))
                      ELSE events
         /\ passes' = [passes EXCEPT ![p].todo = Tail(@)]
         /\ running' = None
  /\ UNCHANGED <<retry, adapterCalls, config, threads, appended, lastMentionId, currentUserId,
                 currentUsername, pollInterval, timers, listeners, adapterErr,
                 remote, starts, ops, inTask, overlapped>>

\* faulty variant: a throw of the newMention emit is reported and the loop
\* goes on with the next tweet
PollHandle_GoesOn(p) ==
  /\ running \in {None, p} /\ inTask = p
  /\ passes[p].pc = "proc" /\ Len(passes[p].todo) > 0
  /\ ~SkipOwn(Head(passes[p].todo), currentUserId, config.includeOwnTweets)
  /\ LET tweet == tweetData(Head(passes[p].todo))
         ev == mentionEvent(tweet)
         msg == [senderId |-> ev.userId, timestamp |-> Len(events) + 1,
                 content |-> ev.message]
         thrown == EmitThrows(listeners, "newMention", adapterErr)
         evs == Append(events, Logged("newMention", ev, <<"pass", p>>))
         report == PollCatchEvent(thrown)
     IN  IF ~TruthyId(tweet.id)
         THEN /\ passes' = [passes EXCEPT ![p].todo = Tail(@)]
              /\ UNCHANGED <<threads, appended, events>>
         ELSE /\ threads' = addMessageToThread(threads, config.threadHistoryLimit,
                                               ev.threadId, msg)
              /\ appended' = CountAppend(appended, ev.threadId)
              /\ events' = IF thrown # NoError
                           THEN Append(evs, Logged(report.name, report.payload,
                                                   <<"pass", p>>))
                           ELSE evs
              /\ passes' = [passes EXCEPT ![p].todo = Tail(@),
                                          ![p].caught = thrown]
  /\ running' = None
  /\ UNCHANGED <<retry, adapterCalls, config, lastMentionId, currentUserId, currentUsername,
                 pollInterval, timers, listeners, adapterErr, remote, starts, ops,
                 inTask, overlapped>>

\* the loop hands the next tweet to handleMention and awaits it:
\* a tweet without id is dropped; otherwise the thread append, then the
\* newMention emit; a throw of the emit enters the catch block
PollHandle(p) ==
  /\ running \in {None, p} /\ inTask = p
  /\ passes[p].pc = "proc" /\ Len(passes[p].todo) > 0
  /\ ~SkipOwn(Head(passes[p].todo), currentUserId, config.includeOwnTweets)
  /\ LET tweet == tweetData(Head(passes[p].todo))
         ev == mentionEvent(tweet)
         msg == [senderId |-> ev.userId, timestamp |-> Len(events) + 1,
                 content |-> ev.message]
         thrown == EmitThrows(listeners, "newMention", adapterErr)
         evs == Append(events, Logged("newMention", ev, <<"pass", p>>))
     IN  IF ~TruthyId(tweet.id)
         THEN /\ passes' = [passes EXCEPT ![p].todo = Tail(@)]
              /\ running' = None
              /\ UNCHANGED <<threads, appended, events, inTask>>
         ELSE /\ threads' = addMessageToThread(threads, config.threadHistoryLimit,
                                               ev.threadId, msg)
              /\ appended' = CountAppend(appended, ev.threadId)
              /\ IF thrown # NoError
                 THEN PollCatch(p, thrown, evs)
                 ELSE /\ events' = evs
                      /\ passes' = [passes EXCEPT ![p].todo = Tail(@)]
                      /\ running' = None
                      /\ UNCHANGED inTask
  /\ UNCHANGED <<retry, adapterCalls, config, lastMentionId, currentUserId, currentUsername,
                 pollInterval, timers, listeners, adapterErr, remote, starts, ops,
                 overlapped>>

\* the loop is over: the pass resolves
PollEnd(p) ==
  /\ running \in {None, p} /\ inTask = p
  /\ passes[p].pc = "proc" /\ Len(passes[p].todo) = 0
  /\ passes' = [passes EXCEPT ![p].pc = "done"]
  /\ running' = None
  /\ inTask' = None
  /\ UNCHANGED <<retry, adapterCalls, config, threads, appended, lastMentionId, currentUserId,
                 currentUsername, pollInterval, timers, listeners, adapterErr,
                 remote, starts, ops, events, overlapped>>

\* ----------------------------------------------------------- start / stop
\* start() up to its await of users/me
StartCall ==
  /\ running = None
  /\ starts' = Append(starts, [pc |-> "lookup", pass |-> None, failure |-> NoError,
                              error |-> NoError, stopped |-> FALSE,
                              emitted |-> Len(events)])
  /\ UNCHANGED <<retry, adapterCalls, config, threads, appended, lastMentionId, currentUserId,
                 currentUsername, pollInterval, timers, listeners, adapterErr,
                 remote, passes, ops, running, inTask, events, overlapped>>

\* users/me answers: the identity is stored and the initial pass begins
StartLookupOk(s) ==
  /\ running = None /\ inTask = None
  /\ s \in 1..Len(starts) /\ starts[s].pc = "lookup"
  /\ currentUserId' = Me
  /\ currentUsername' = MeName
  /\ passes' = Append(passes, NewPass("start", MeName, lastMentionId))
  /\ overlapped' = (overlapped \/ InFlight # {})
  /\ starts' = [starts EXCEPT ![s].pc = "pass", ![s].pass = Len(passes) + 1]
  /\ UNCHANGED <<retry, adapterCalls, config, threads, appended, lastMentionId, pollInterval, timers,
                 listeners, adapterErr, remote, ops, running, inTask, events>>

\* number of setInterval calls made so far
Armed == Cardinality({s \in 1..Len(starts) : starts[s].pc = "resolved"})

\* faulty variant: the failure is logged and swallowed, the timer is armed
StartLookupFail_Swallows(s, error) ==
  /\ running = None /\ inTask = None
  /\ s \in 1..Len(starts) /\ starts[s].pc = "lookup"
  /\ timers' = timers \cup {Armed + 1}
  /\ pollInterval' = Armed + 1
  /\ starts' = [starts EXCEPT ![s].pc = "resolved", ![s].failure = error]
  /\ UNCHANGED <<retry, adapterCalls, config, threads, appended, lastMentionId, currentUserId,
                 currentUsername, listeners, adapterErr, remote, passes, ops,
                 running, inTask, events, overlapped>>

\* users/me fails: start() logs and rethrows
StartLookupFail(s, error) ==
  /\ running = None /\ inTask = None
  /\ s \in 1..Len(starts) /\ starts[s].pc = "lookup"
  /\ starts' = [starts EXCEPT ![s].pc = "rejected", ![s].failure = error,
                              ![s].error = error]
  /\ UNCHANGED <<retry, adapterCalls, config, threads, appended, lastMentionId, currentUserId,
                 currentUsername, pollInterval, timers, listeners, adapterErr,
                 remote, passes, ops, running, inTask, events, overlapped>>

\* faulty variant: the initial pass is not awaited before setInterval
StartArm_Early(s) ==
  /\ running = None
  /\ s \in 1..Len(starts) /\ starts[s].pc = "pass"
  /\ timers' = timers \cup {Armed + 1}
  /\ pollInterval' = Armed + 1
  /\ starts' = [starts EXCEPT ![s].pc = "resolved"]
  /\ UNCHANGED <<retry, adapterCalls, config, threads, appended, lastMentionId, currentUserId,
                 currentUsername, listeners, adapterErr, remote, passes, ops,
                 running, inTask, events, overlapped>>

\* the awaited initial pass resolved: setInterval, then start() resolves
StartArm(s) ==
  /\ running = None
  /\ s \in 1..Len(starts) /\ starts[s].pc = "pass"
  /\ passes[starts[s].pass].pc = "done"
  /\ passes[starts[s].pass].rejected = NoError
  /\ timers' = timers \cup {Armed + 1}
  /\ pollInterval' = Armed + 1
  /\ starts' = [starts EXCEPT ![s].pc = "resolved"]
  /\ UNCHANGED <<retry, adapterCalls, config, threads, appended, lastMentionId, currentUserId,
                 currentUsername, listeners, adapterErr, remote, passes, ops,
                 running, inTask, events, overlapped>>

\* the awaited initial pass rejected: start() logs and rethrows
StartPassRejected(s) ==
  /\ running = None
  /\ s \in 1..Len(starts) /\ starts[s].pc = "pass"
  /\ passes[starts[s].pass].pc = "done"
  /\ passes[starts[s].pass].rejected # NoError
  /\ starts' = [starts EXCEPT ![s].pc = "rejected",
                              ![s].error = passes[starts[s].pass].rejected]
  /\ UNCHANGED <<retry, adapterCalls, config, threads, appended, lastMentionId, currentUserId,
                 currentUsername, pollInterval, timers, listeners, adapterErr,
                 remote, passes, ops, running, inTask, events, overlapped>>

\* faulty variant: stop() also puts the cursor back to the configured sinceId
Stop_ResetsCursor ==
  /\ running = None
  /\ timers' = IF pollInterval # Undefined THEN timers \ {pollInterval} ELSE timers
  /\ pollInterval' = Undefined
  /\ listeners' = NoListeners
  /\ threads' = << >>
  /\ appended' = << >>
  /\ lastMentionId' = config.sinceId
  /\ starts' = [s \in 1..Len(starts) |-> [starts[s] EXCEPT !.stopped = TRUE]]
  /\ UNCHANGED <<retry, adapterCalls, config, currentUserId, currentUsername, adapterErr,
                 remote, passes, ops, running, inTask, events, overlapped>>

\* stop(): clearInterval of the stored handle, removeAllListeners, threads.clear
Stop ==
  /\ running = None
  /\ timers' = IF pollInterval # Undefined THEN timers \ {pollInterval} ELSE timers
  /\ pollInterval' = Undefined
  /\ listeners' = NoListeners
  /\ threads' = << >>
  /\ appended' = << >>
  /\ starts' = [s \in 1..Len(starts) |-> [starts[s] EXCEPT !.stopped = TRUE]]
  /\ UNCHANGED <<retry, adapterCalls, config, lastMentionId, currentUserId, currentUsername, adapterErr,
                 remote, passes, ops, running, inTask, events, overlapped>>

\* ------------------------------------------------------- write operations
NoResult == "no result"
PlatformResponse == "response"

NewOp(kind, tweetId, message) ==
  [kind |-> kind, tweetId |-> tweetId, message |-> message, pc |-> "await",
   response |-> NoResult, result |-> NoResult, error |-> NoError, raised |-> NoError]

\* replyToTweet(tweetId, message) up to its await of v2.tweet
ReplyCall(tweetId, message) ==
  /\ running = None
  /\ ops' = Append(ops, NewOp("reply", tweetId, message))
  /\ UNCHANGED <<retry, adapterCalls, config, threads, appended, lastMentionId, currentUserId,
                 currentUsername, pollInterval, timers, listeners, adapterErr,
                 remote, passes, starts, running, inTask, events, overlapped>>

\* tweet(text) up to its await of v2.tweet
TweetCall(text) ==
  /\ running = None
  /\ ops' = Append(ops, NewOp("tweet", Undefined, text))
  /\ UNCHANGED <<retry, adapterCalls, config, threads, appended, lastMentionId, currentUserId,
                 currentUsername, pollInterval, timers, listeners, adapterErr,
                 remote, passes, starts, running, inTask, events, overlapped>>

\* response.data, which getMyProfile and searchTweets return
UnwrappedData == "response.data"

\* faulty variant: the data of the response is returned, not the response
WriteOk_Unwraps(o) ==
  /\ running = None /\ inTask = None
  /\ o \in 1..Len(ops) /\ ops[o].pc = "await"
  /\ ops[o].kind \in {"reply", "tweet"}
  /\ ops' = [ops EXCEPT ![o].pc = "returned", ![o].response = PlatformResponse,
                        ![o].result = UnwrappedData]
  /\ UNCHANGED <<retry, adapterCalls, config, threads, appended, lastMentionId, currentUserId,
                 currentUsername, pollInterval, timers, listeners, adapterErr,
                 remote, passes, starts, running, inTask, events, overlapped>>

\* v2.tweet answers: the response is returned
WriteOk(o) ==
  /\ running = None /\ inTask = None
  /\ o \in 1..Len(ops) /\ ops[o].pc = "await"
  /\ ops[o].kind \in {"reply", "tweet"}
  /\ ops' = [ops EXCEPT ![o].pc = "returned", ![o].response = PlatformResponse,
                        ![o].result = PlatformResponse]
  /\ UNCHANGED <<retry, adapterCalls, config, threads, appended, lastMentionId, currentUserId,
                 currentUsername, pollInterval, timers, listeners, adapterErr,
                 remote, passes, starts, running, inTask, events, overlapped>>

\* the event the catch block of a write operation emits
WriteCatchEvent(op, error) ==
  IF op.kind = "reply" THEN ReplyCatchEvent(op.tweetId, op.message, error)
  ELSE TweetCatchEvent(op.message, error)

\* v2.tweet fails: the catch block emits, then rethrows
WriteFail(o, error) ==
  /\ running = None /\ inTask = None
  /\ o \in 1..Len(ops) /\ ops[o].pc = "await"
  /\ ops[o].kind \in {"reply", "tweet"}
  /\ LET ev == WriteCatchEvent(ops[o], error)
         thrown == EmitThrows(listeners, ev.name, adapterErr)
     IN  /\ events' = Append(events, Logged(ev.name, ev.payload, <<"op", o>>))
         /\ ops' = [ops EXCEPT ![o].pc = "raised", ![o].error = error,
                               ![o].raised = Rethrown(error, thrown)]
  /\ UNCHANGED <<retry, adapterCalls, config, threads, appended, lastMentionId, currentUserId,
                 currentUsername, pollInterval, timers, listeners, adapterErr,
                 remote, passes, starts, running, inTask, overlapped>>

\* -------------------------------------------------------- read operations
\* getMyProfile() up to its await of users/me
GetMyProfileCall ==
  /\ running = None
  /\ ops' = Append(ops, NewOp("getMyProfile", Undefined, ""))
  /\ UNCHANGED <<retry, adapterCalls, config, threads, appended, lastMentionId, currentUserId,
                 currentUsername, pollInterval, timers, listeners, adapterErr,
                 remote, passes, starts, running, inTask, events, overlapped>>

\* searchTweets(query) up to its await of v2.search
SearchTweetsCall(query) ==
  /\ running = None
  /\ ops' = Append(ops, NewOp("searchTweets", Undefined, query))
  /\ UNCHANGED <<retry, adapterCalls, config, threads, appended, lastMentionId, currentUserId,
                 currentUsername, pollInterval, timers, listeners, adapterErr,
                 remote, passes, starts, running, inTask, events, overlapped>>

\* faulty variant: getMyProfile stores the identity it fetched
ReadOk_CachesIdentity(o) ==
  /\ running = None /\ inTask = None
  /\ o \in 1..Len(ops) /\ ops[o].pc = "await"
  /\ ops[o].kind \in {"getMyProfile", "searchTweets"}
  /\ ops' = [ops EXCEPT ![o].pc = "returned", ![o].response = PlatformResponse,
                        ![o].result = UnwrappedData]
  /\ currentUserId' = IF ops[o].kind = "getMyProfile" THEN Me ELSE currentUserId
  /\ currentUsername' = IF ops[o].kind = "getMyProfile" THEN MeName
                        ELSE currentUsername
  /\ UNCHANGED <<retry, adapterCalls, config, threads, appended, lastMentionId,
                 pollInterval, timers, listeners, adapterErr,
                 remote, passes, starts, running, inTask, events, overlapped>>

\* the platform answers: response.data is returned
ReadOk(o) ==
  /\ running = None /\ inTask = None
  /\ o \in 1..Len(ops) /\ ops[o].pc = "await"
  /\ ops[o].kind \in {"getMyProfile", "searchTweets"}
  /\ ops' = [ops EXCEPT ![o].pc = "returned", ![o].response = PlatformResponse,
                        ![o].result = UnwrappedData]
  /\ UNCHANGED <<retry, adapterCalls, config, threads, appended, lastMentionId, currentUserId,
                 currentUsername, pollInterval, timers, listeners, adapterErr,
                 remote, passes, starts, running, inTask, events, overlapped>>

\* the platform fails: the catch block logs and rethrows, nothing is emitted
ReadFail(o, error) ==
  /\ running = None /\ inTask = None
  /\ o \in 1..Len(ops) /\ ops[o].pc = "await"
  /\ ops[o].kind \in {"getMyProfile", "searchTweets"}
  /\ ops' = [ops EXCEPT ![o].pc = "raised", ![o].error = error, ![o].raised = error]
  /\ UNCHANGED <<retry, adapterCalls, config, threads, appended, lastMentionId, currentUserId,
                 currentUsername, pollInterval, timers, listeners, adapterErr,
                 remote, passes, starts, running, inTask, events, overlapped>>

\* ------------------------------------------------------- retryWithBackoff
Max(a, b) == IF a > b THEN a ELSE b

OperationResult == "operation result"

\* retryWithBackoff(operation, maxRetries, baseDelay) is called at time
\* `now`: the loop is entered and the operation invoked
RetryCall(maxRetries, baseDelay, now) ==
  /\ retry.pc = "idle"
  /\ retry' = [pc |-> "call",
               given |-> [maxRetries |-> maxRetries, baseDelay |-> baseDelay],
               maxRetries |-> DefaultedMaxRetries(maxRetries),
               baseDelay |-> DefaultedBaseDelay(baseDelay),
               retries |-> 0, calls |-> 1, now |-> now, waits |-> << >>,
               lastError |-> NoError, result |-> NoResult, raised |-> NoError]
  /\ UNCHANGED <<config, threads, appended, lastMentionId, currentUserId,
                 currentUsername, pollInterval, timers, listeners, adapterErr,
                 remote, passes, starts, ops, running, inTask, events, overlapped,
                 adapterCalls>>

\* the operation resolves: its result is returned
RetryOpOk ==
  /\ retry.pc = "call"
  /\ retry' = [retry EXCEPT !.pc = "returned", !.result = OperationResult]
  /\ UNCHANGED <<config, threads, appended, lastMentionId, currentUserId,
                 currentUsername, pollInterval, timers, listeners, adapterErr,
                 remote, passes, starts, ops, running, inTask, events, overlapped,
                 adapterCalls>>

\* the operation rejects with `error`, whose headers carry x-rate-limit-reset
\* = resetTime (seconds) or not: the delay is started, or the error rethrown
RetryOpFail(error, resetTime) ==
  /\ retry.pc = "call"
  /\ retry' =
       IF ShouldRetry(error, retry.retries, retry.maxRetries)
       THEN [retry EXCEPT !.pc = "wait", !.lastError = error,
                          !.waits = Append(@, [k |-> retry.retries,
                                               resetTime |-> resetTime,
                                               now |-> retry.now,
                                               waitTime |-> WaitTime(resetTime, retry.now,
                                                                     retry.baseDelay,
                                                                     retry.retries)])]
       ELSE [retry EXCEPT !.pc = "raised", !.lastError = error, !.raised = error]
  /\ UNCHANGED <<config, threads, appended, lastMentionId, currentUserId,
                 currentUsername, pollInterval, timers, listeners, adapterErr,
                 remote, passes, starts, ops, running, inTask, events, overlapped,
                 adapterCalls>>

\* the delay is over: retries++, and the operation is invoked again
RetryDelayDone ==
  /\ retry.pc = "wait"
  /\ retry' = [retry EXCEPT !.pc = "call", !.retries = @ + 1, !.calls = @ + 1,
                            !.now = @ + Max(retry.waits[Len(retry.waits)].waitTime, 0)]
  /\ UNCHANGED <<config, threads, appended, lastMentionId, currentUserId,
                 currentUsername, pollInterval, timers, listeners, adapterErr,
                 remote, passes, starts, ops, running, inTask, events, overlapped,
                 adapterCalls>>

\* --------------------------------------------------------- LLMToolAdapter
SuccessMessage(kind) ==
  CASE kind = "start" -> "Twitter service started successfully"
    [] kind = "stop" -> "Twitter service stopped successfully"
    [] kind = "postTweet" -> "Tweet posted successfully"
    [] kind = "replyToTweet" -> "Reply posted successfully"
    [] OTHER -> NoString

FailureMessage(kind) ==
  CASE kind = "start" -> "Failed to start Twitter service"
    [] kind = "stop" -> "Failed to stop Twitter service"
    [] kind = "postTweet" -> "Failed to post tweet"
    [] kind = "replyToTweet" -> "Failed to post reply"
    [] kind = "getMyProfile" -> "Failed to get profile"
    [] OTHER -> "Failed to search tweets"

\* the LLMResponse of the try branch and of the catch branch
LLMResponse(kind, ok, value, error) ==
  IF ok
  THEN [success |-> TRUE, message |-> SuccessMessage(kind), data |-> value,
        error |-> NoError]
  ELSE [success |-> FALSE, message |-> FailureMessage(kind), data |-> NoResult,
        error |-> error]

\* an adapter method up to its await of the TwitterService call `target`
NewAdapterCall(kind, target) ==
  [kind |-> kind, target |-> target, pc |-> "await", response |-> NoResult]

\* the TwitterService call has settled / has resolved; its value; its error
TargetSettled(target) ==
  CASE target[1] = "op" -> ops[target[2]].pc \in {"returned", "raised"}
    [] target[1] = "start" -> starts[target[2]].pc \in {"resolved", "rejected"}
    [] OTHER -> TRUE

TargetResolved(target) ==
  CASE target[1] = "op" -> ops[target[2]].pc = "returned"
    [] target[1] = "start" -> starts[target[2]].pc = "resolved"
    [] OTHER -> TRUE

TargetValue(target) ==
  IF target[1] = "op" THEN ops[target[2]].result ELSE NoResult

TargetError(target) ==
  CASE target[1] = "op" -> ops[target[2]].raised
    [] target[1] = "start" -> starts[target[2]].error
    [] OTHER -> NoError

\* adapter.start(): this.twitterService.start() is called and awaited
AdapterStart ==
  /\ running = None
  /\ config.adapter
  /\ starts' = Append(starts, [pc |-> "lookup", pass |-> None, failure |-> NoError,
                              error |-> NoError, stopped |-> FALSE,
                              emitted |-> Len(events)])
  /\ adapterCalls' = Append(adapterCalls,
                            NewAdapterCall("start", <<"start", Len(starts) + 1>>))
  /\ UNCHANGED <<retry, config, threads, appended, lastMentionId,
                 currentUserId, currentUsername, pollInterval, timers,
                 listeners, adapterErr, remote, passes, ops, running, inTask,
                 events, overlapped>>

\* adapter.stop(): this.twitterService.stop() runs to its end and is awaited
AdapterStop ==
  /\ running = None
  /\ config.adapter
  /\ timers' = IF pollInterval # Undefined THEN timers \ {pollInterval} ELSE timers
  /\ pollInterval' = Undefined
  /\ listeners' = NoListeners
  /\ threads' = << >>
  /\ appended' = << >>
  /\ starts' = [s \in 1..Len(starts) |-> [starts[s] EXCEPT !.stopped = TRUE]]
  /\ adapterCalls' = Append(adapterCalls, NewAdapterCall("stop", <<"stop", 0>>))
  /\ UNCHANGED <<retry, config, lastMentionId, currentUserId, currentUsername,
                 adapterErr, remote, passes, ops, running, inTask, events,
                 overlapped>>

\* adapter.postTweet(content): this.twitterService.tweet(content)
AdapterPostTweet(content) ==
  /\ running = None
  /\ config.adapter
  /\ ops' = Append(ops, NewOp("tweet", Undefined, content))
  /\ adapterCalls' = Append(adapterCalls,
                            NewAdapterCall("postTweet", <<"op", Len(ops) + 1>>))
  /\ UNCHANGED <<retry, config, threads, appended, lastMentionId,
                 currentUserId, currentUsername, pollInterval, timers,
                 listeners, adapterErr, remote, passes, starts, running,
                 inTask, events, overlapped>>

\* adapter.replyToTweet(tweetId, content)
AdapterReplyToTweet(tweetId, content) ==
  /\ running = None
  /\ config.adapter
  /\ ops' = Append(ops, NewOp("reply", tweetId, content))
  /\ adapterCalls' = Append(adapterCalls,
                            NewAdapterCall("replyToTweet", <<"op", Len(ops) + 1>>))
  /\ UNCHANGED <<retry, config, threads, appended, lastMentionId,
                 currentUserId, currentUsername, pollInterval, timers,
                 listeners, adapterErr, remote, passes, starts, running,
                 inTask, events, overlapped>>

\* adapter.getMyProfile()
AdapterGetMyProfile ==
  /\ running = None
  /\ config.adapter
  /\ ops' = Append(ops, NewOp("getMyProfile", Undefined, ""))
  /\ adapterCalls' = Append(adapterCalls,
                            NewAdapterCall("getMyProfile", <<"op", Len(ops) + 1>>))
  /\ UNCHANGED <<retry, config, threads, appended, lastMentionId,
                 currentUserId, currentUsername, pollInterval, timers,
                 listeners, adapterErr, remote, passes, starts, running,
                 inTask, events, overlapped>>

\* adapter.searchTweets(query)
AdapterSearchTweets(query) ==
  /\ running = None
  /\ config.adapter
  /\ ops' = Append(ops, NewOp("searchTweets", Undefined, query))
  /\ adapterCalls' = Append(adapterCalls,
                            NewAdapterCall("searchTweets", <<"op", Len(ops) + 1>>))
  /\ UNCHANGED <<retry, config, threads, appended, lastMentionId,
                 currentUserId, currentUsername, pollInterval, timers,
                 listeners, adapterErr, remote, passes, starts, running,
                 inTask, events, overlapped>>

\* faulty variant: no catch branch, a failure of the service call rejects
AdapterSettle_NoCatch(a) ==
  /\ running = None
  /\ a \in 1..Len(adapterCalls) /\ adapterCalls[a].pc = "await"
  /\ TargetSettled(adapterCalls[a].target)
  /\ adapterCalls' =
       [adapterCalls EXCEPT
          ![a].pc = IF TargetResolved(adapterCalls[a].target)
                    THEN "resolved" ELSE "rejected",
          ![a].response = LLMResponse(adapterCalls[a].kind, TRUE,
                                      TargetValue(adapterCalls[a].target), NoError)]
  /\ UNCHANGED <<retry, config, threads, appended, lastMentionId,
                 currentUserId, currentUsername, pollInterval, timers,
                 listeners, adapterErr, remote, passes, starts, ops, running,
                 inTask, events, overlapped>>

\* the awaited TwitterService call settled: the try branch returns the
\* success response, the catch branch the failure response
AdapterSettle(a) ==
  /\ running = None
  /\ a \in 1..Len(adapterCalls) /\ adapterCalls[a].pc = "await"
  /\ TargetSettled(adapterCalls[a].target)
  /\ adapterCalls' =
       [adapterCalls EXCEPT
          ![a].pc = "resolved",
          ![a].response = LLMResponse(adapterCalls[a].kind,
                                      TargetResolved(adapterCalls[a].target),
                                      TargetValue(adapterCalls[a].target),
                                      TargetError(adapterCalls[a].target))]
  /\ UNCHANGED <<retry, config, threads, appended, lastMentionId,
                 currentUserId, currentUsername, pollInterval, timers,
                 listeners, adapterErr, remote, passes, starts, ops, running,
                 inTask, events, overlapped>>

\* the message the unit tests append: numbered per thread
TestMessage(n) == [senderId |-> "user1", timestamp |-> n, content |-> "message"]

\* a direct call of addMessageToThread, as the unit tests make it
AddMessage(t) ==
  /\ threads' = addMessageToThread(threads, config.threadHistoryLimit, t,
                                   TestMessage(Appended(t) + 1))
  /\ appended' = CountAppend(appended, t)
  /\ UNCHANGED <<retry, adapterCalls, config, lastMentionId, currentUserId, currentUsername, pollInterval,
                 timers, listeners, adapterErr, remote, passes, starts, ops, running,
                 inTask, events, overlapped>>

\* --------------------------------------------------------- specifications
\* The steps of a pass that begun without a cached identity
PollLookupSteps ==
  \/ \E p \in 1..Len(passes) : PollLookupOk(p)
  \/ \E p \in 1..Len(passes), e \in ApiErrors : PollLookupFail(p, e)

\* The steps of a pass from its search on
PollSteps ==
  \/ \E p \in 1..Len(passes), e \in ApiErrors : PollSearchFail(p, e)
  \/ \E p \in 1..Len(passes) : PollSearchEmpty(p)
  \/ \E p \in 1..Len(passes) : PollSearchResp(p)
  \/ \E p \in 1..Len(passes) : PollSkip(p)
  \/ \E p \in 1..Len(passes) : PollHandle(p)
  \/ \E p \in 1..Len(passes) : PollEnd(p)

\* ThreadStore on its own: direct appends under every configured limit
InitThread == InitWith({Undefined} \cup (0..MaxLimit), {Undefined}, {FALSE}, {FALSE})

NextThread == \E t \in ThreadIds : (Appended(t) < MaxAppends /\ AddMessage(t))

SpecThread == InitThread /\ [][NextThread]_vars

\* Polling: a service used directly (no adapter), started, stopped, ticked
\* and polled by hand, against a remote that receives mentions
InitPoll == InitWith({Undefined, 1}, {Undefined, Sentinel, 1}, BOOLEAN, {FALSE})

NextPoll ==
  \/ \E a \in {Me, Other} : (Len(remote) < MaxTweets /\ RemotePost(a, 1))
  \/ (Len(passes) < MaxPasses /\ ManualPoll)
  \/ (Len(passes) < MaxPasses /\ Tick)
  \/ PollLookupSteps
  \/ PollSteps
  \/ (Len(starts) < MaxPollStarts /\ StartCall)
  \/ \E s \in 1..Len(starts) : (Len(passes) < MaxPasses /\ StartLookupOk(s))
  \/ \E s \in 1..Len(starts), e \in ApiErrors : StartLookupFail(s, e)
  \/ \E s \in 1..Len(starts) : StartArm(s)
  \/ Stop

SpecPoll == InitPoll /\ [][NextPoll]_vars

\* Write operations: replyToTweet and tweet under every set of subscribers
InitWrite == InitWith({Undefined}, {Undefined}, {FALSE}, BOOLEAN)

NextWrite ==
  \/ \E n \in EventNames : (DirectSubs < MaxSubs /\ Subscribe(n))
  \/ AdapterOnError
  \/ \E t \in {1, 2}, m \in {"hello"} : (Len(ops) < MaxOps /\ ReplyCall(t, m))
  \/ \E m \in {"hello"} : (Len(ops) < MaxOps /\ TweetCall(m))
  \/ \E o \in 1..Len(ops) : WriteOk(o)
  \/ \E o \in 1..Len(ops), e \in ApiErrors : WriteFail(o, e)
  \/ Stop

SpecWrite == InitWrite /\ [][NextWrite]_vars

\* Read operations: getMyProfile and searchTweets under every set of subscribers
InitRead == InitWith({Undefined}, {Undefined}, {FALSE}, BOOLEAN)

NextRead ==
  \/ \E n \in EventNames : (DirectSubs < MaxSubs /\ Subscribe(n))
  \/ AdapterOnError
  \/ (Len(ops) < MaxReadOps /\ GetMyProfileCall)
  \/ \E q \in {"@me_name"} : (Len(ops) < MaxReadOps /\ SearchTweetsCall(q))
  \/ \E o \in 1..Len(ops) : ReadOk(o)
  \/ \E o \in 1..Len(ops), e \in ApiErrors : ReadFail(o, e)
  \/ Stop

SpecRead == InitRead /\ [][NextRead]_vars

\* Polling against a platform that may return records without an id
InitMalformed == InitWith({Undefined}, {Undefined}, {FALSE}, {FALSE})

NextMalformed ==
  \/ \E a \in {Me, Other} : (Len(remote) < MaxBadTweets /\ RemotePost(a, 1))
  \/ (Len(remote) < MaxBadTweets /\ RemotePostNoId(Other, 1))
  \/ (Len(passes) < MaxBadPasses /\ InFlight = {} /\ ManualPoll)
  \/ PollLookupSteps
  \/ PollSteps

SpecMalformed == InitMalformed /\ [][NextMalformed]_vars

\* Polling against a platform whose records may lack any field
InitFields == InitWith({Undefined}, {Undefined}, BOOLEAN, {FALSE})

NextFields ==
  \/ \E hasId \in BOOLEAN, text \in {"hi", NoString}, a \in {Me, Other, NoString},
        conv \in {1, Undefined} :
        (Len(remote) < MaxFieldTweets /\ RemotePostRaw(hasId, text, a, conv))
  \/ (Len(passes) < MaxFieldPasses /\ InFlight = {} /\ ManualPoll)
  \/ PollLookupSteps
  \/ PollSteps

SpecFields == InitFields /\ [][NextFields]_vars

\* The retry loop of the API test scripts
InitRetry == InitWith({Undefined}, {Undefined}, {FALSE}, {FALSE})

RetrySteps ==
  \/ RetryOpOk
  \/ \E e \in ApiErrors, r \in ResetTimes : RetryOpFail(e, r)
  \/ RetryDelayDone

NextRetry ==
  \/ \E m \in {Undefined} \cup (0..MaxRetryLimit), d \in {Undefined, 1000},
        now \in {0, 3000} : RetryCall(m, d, now)
  \/ RetrySteps

SpecRetry == InitRetry /\ [][NextRetry]_vars

\* the operation settles and the delay timer fires
SpecRetryFair == SpecRetry /\ WF_vars(RetrySteps)

\* The LLMToolAdapter methods over the service they wrap
InitAdapter == InitWith({Undefined}, {Undefined}, {FALSE}, {TRUE})

NextAdapter ==
  \/ AdapterOnError
  \/ \E a \in {Me, Other} : (Len(remote) < MaxAdapterTweets /\ RemotePost(a, 1))
  \/ (Len(adapterCalls) < MaxAdapterCalls /\ Len(starts) < MaxAdapterStarts
        /\ AdapterStart)
  \/ (Len(adapterCalls) < MaxAdapterCalls /\ AdapterStop)
  \/ \E m \in {"hello"} : (Len(adapterCalls) < MaxAdapterCalls /\ AdapterPostTweet(m))
  \/ \E m \in {"hello"} :
        (Len(adapterCalls) < MaxAdapterCalls /\ AdapterReplyToTweet(1, m))
  \/ (Len(adapterCalls) < MaxAdapterCalls /\ AdapterGetMyProfile)
  \/ \E q \in {"@me_name"} :
        (Len(adapterCalls) < MaxAdapterCalls /\ AdapterSearchTweets(q))
  \/ \E a \in 1..Len(adapterCalls) : AdapterSettle(a)
  \/ \E s \in 1..Len(starts) : (Len(passes) < MaxAdapterPasses /\ StartLookupOk(s))
  \/ \E s \in 1..Len(starts), e \in ApiErrors : StartLookupFail(s, e)
  \/ \E s \in 1..Len(starts) : StartArm(s)
  \/ \E s \in 1..Len(starts) : StartPassRejected(s)
  \/ (Len(passes) < MaxAdapterPasses /\ Tick)
  \/ PollSteps
  \/ \E o \in 1..Len(ops) : WriteOk(o)
  \/ \E o \in 1..Len(ops), e \in ApiErrors : WriteFail(o, e)
  \/ \E o \in 1..Len(ops) : ReadOk(o)
  \/ \E o \in 1..Len(ops), e \in ApiErrors : ReadFail(o, e)

SpecAdapter == InitAdapter /\ [][NextAdapter]_vars

\* The event register: subscribers that return and subscribers that throw,
\* under the events the write operations publish
InitBus == InitWith({Undefined}, {Undefined}, {FALSE}, {FALSE})

NextBus ==
  \/ \E n \in {"tweetError", "rateLimitWarning"} :
        (Len(listeners[n]) < MaxBusSubs /\ Subscribe(n))
  \/ \E n \in {"tweetError", "rateLimitWarning"} :
        (Len(listeners[n]) < MaxBusSubs /\ SubscribeThrower(n))
  \/ \E t \in {1}, m \in {"hello"} : (Len(ops) < MaxBusOps /\ ReplyCall(t, m))
  \/ \E o \in 1..Len(ops) : WriteOk(o)
  \/ \E o \in 1..Len(ops), e \in ApiErrors : WriteFail(o, e)

SpecBus == InitBus /\ [][NextBus]_vars

\* Polling with newMention subscribers that may throw
InitBatch == InitWith({Undefined}, {Undefined}, {FALSE}, {FALSE})

NextBatch ==
  \/ \E a \in {Me, Other} : (Len(remote) < MaxBatchTweets /\ RemotePost(a, 1))
  \/ \E n \in {"newMention", "pollError"} :
        (Len(listeners[n]) < MaxBatchSubs /\ Subscribe(n))
  \/ \E n \in {"newMention", "pollError"} :
        (Len(listeners[n]) < MaxBatchSubs /\ SubscribeThrower(n))
  \/ (Len(passes) < MaxBatchPasses /\ ManualPoll)
  \/ PollLookupSteps
  \/ PollSteps
  \/ Stop

SpecBatch == InitBatch /\ [][NextBatch]_vars

\* Polling when mentions arrive in bursts of up to max_results + 1
InitBurst == InitWith({Undefined}, {Undefined}, {FALSE}, {FALSE})

\* the loop over a fetched batch
BatchSteps ==
  \/ \E p \in 1..Len(passes) : PollSkip(p)
  \/ \E p \in 1..Len(passes) : PollHandle(p)
  \/ \E p \in 1..Len(passes) : PollEnd(p)

\* the next pass begins once the previous one has ended
BurstTick == Len(passes) < MaxBurstPasses /\ InFlight = {} /\ ManualPoll

\* the platform answers a fetch
FetchAnswered ==
  \/ \E p \in 1..Len(passes) : PollLookupOk(p)
  \/ \E p \in 1..Len(passes) : PollSearchEmpty(p)
  \/ \E p \in 1..Len(passes) : PollSearchResp(p)

NextBurst ==
  \/ \E n \in {1, MaxResults, MaxResults + 1}, a \in {Me, Other} :
        (Len(remote) < MaxBurstBacklog /\ RemotePostMany(n, a, 1))
  \/ BurstTick
  \/ \E p \in 1..Len(passes), e \in ApiErrors : PollLookupFail(p, e)
  \/ \E p \in 1..Len(passes), e \in ApiErrors : PollSearchFail(p, e)
  \/ FetchAnswered
  \/ BatchSteps

SpecBurst == InitBurst /\ [][NextBurst]_vars

\* passes keep beginning, fetches are answered in the end, and the loop over
\* a fetched batch runs to its end
SpecBurstFair ==
  SpecBurst /\ WF_vars(BurstTick) /\ SF_vars(FetchAnswered) /\ WF_vars(BatchSteps)

\* The four request operations interleaved with a started, polling service
InitMixed == InitWith({Undefined}, {Undefined}, {FALSE}, {FALSE})

NextMixed ==
  \/ \E a \in {Me, Other} : (Len(remote) < MaxMixedTweets /\ RemotePost(a, 1))
  \/ (Len(starts) < MaxMixedStarts /\ StartCall)
  \/ \E s \in 1..Len(starts) : (Len(passes) < MaxMixedPasses /\ StartLookupOk(s))
  \/ \E s \in 1..Len(starts), e \in ApiErrors : StartLookupFail(s, e)
  \/ \E s \in 1..Len(starts) : StartArm(s)
  \/ (Len(passes) < MaxMixedPasses /\ Tick)
  \/ PollSteps
  \/ \E m \in {"hello"} : (Len(ops) < MaxMixedOps /\ ReplyCall(1, m))
  \/ \E m \in {"hello"} : (Len(ops) < MaxMixedOps /\ TweetCall(m))
  \/ (Len(ops) < MaxMixedOps /\ GetMyProfileCall)
  \/ \E q \in {"@me_name"} : (Len(ops) < MaxMixedOps /\ SearchTweetsCall(q))
  \/ \E o \in 1..Len(ops) : WriteOk(o)
  \/ \E o \in 1..Len(ops), e \in ApiErrors : WriteFail(o, e)
  \/ \E o \in 1..Len(ops) : ReadOk(o)
  \/ \E o \in 1..Len(ops), e \in ApiErrors : ReadFail(o, e)

SpecMixed == InitMixed /\ [][NextMixed]_vars

\* Lifecycle: start, stop and the timer, with and without the adapter
InitLife == InitWith({Undefined}, {Undefined}, {FALSE}, BOOLEAN)

NextLife ==
  \/ \E a \in {Me, Other} : (Len(remote) < MaxLifeTweets /\ RemotePost(a, 1))
  \/ AdapterOnError
  \/ (Len(passes) < MaxLifePasses /\ Tick)
  \/ PollSteps
  \/ (Len(starts) < MaxStarts /\ StartCall)
  \/ \E s \in 1..Len(starts) : (Len(passes) < MaxLifePasses /\ StartLookupOk(s))
  \/ \E s \in 1..Len(starts), e \in ApiErrors : StartLookupFail(s, e)
  \/ \E s \in 1..Len(starts) : StartArm(s)
  \/ \E s \in 1..Len(starts) : StartPassRejected(s)
  \/ Stop

SpecLife == InitLife /\ [][NextLife]_vars

\* ================================================================== claims

\* ------------------------------------------------------------ ThreadStore
\* C4: for every thread id and every configured threadHistoryLimit, the
\* length of a thread's history is at most threadHistoryLimit after any
\* append has returned.
C4_HistoryWithinLimit ==
  \A t \in DOMAIN threads : Len(threads[t]) <= config.threadHistoryLimit

\* the n-th to m-th messages appended to a thread, in insertion order
Messages(n, m) == [i \in 1..(m - n + 1) |-> TestMessage(n + i - 1)]

\* C5: eviction is strictly FIFO: after n appends to one thread its history
\* is the last min(n, threadHistoryLimit) appended messages in insertion
\* order, threadHistoryLimit being 50 when not configured.
C5_FifoLastMessages ==
  \A t \in DOMAIN threads :
    LET n == Appended(t)
        k == Min(n, config.threadHistoryLimit)
    IN  threads[t] = Messages(n - k + 1, n)

\* C5 for the limits the truncation applies to (every limit but 0)
C5_FifoTruthyLimit ==
  TruthyNum(config.threadHistoryLimit) => C5_FifoLastMessages

\* 51 appends under the default limit: messages 2..51 are kept
C5_DefaultEvicts ==
  \E t \in DOMAIN threads :
    /\ config.threadHistoryLimit = DefaultThreadHistoryLimit
    /\ Appended(t) = DefaultThreadHistoryLimit + 1
    /\ threads[t] = Messages(2, DefaultThreadHistoryLimit + 1)

\* ------------------------------------------------------- write operations
Failed(o) == ops[o].pc = "raised"

\* the events a write call emitted, in order
EventsOfOp(o) == SelectSeq(events, LAMBDA e : e.src = <<"op", o>>)

\* C8: when replyToTweet(tweetId, message) fails with a rate-limit-marked
\* error, exactly one rateLimitWarning is emitted, carrying the original
\* tweetId, message and error, no tweetError is emitted, and the very same
\* error is re-raised to the caller.
C8_ReplyRateLimited ==
  \A o \in 1..Len(ops) :
    (ops[o].kind = "reply" /\ Failed(o) /\ ops[o].error.status = RateLimitStatus) =>
      /\ Len(EventsOfOp(o)) = 1
      /\ EventsOfOp(o)[1].name = "rateLimitWarning"
      /\ EventsOfOp(o)[1].payload =
           [tweetId |-> ops[o].tweetId, message |-> ops[o].message,
            error |-> ops[o].error]
      /\ ops[o].raised = ops[o].error

\* a rate-limited reply has failed while subscribers of every kind listen
C8_Witness ==
  \E o \in 1..Len(ops) :
    /\ ops[o].kind = "reply" /\ Failed(o) /\ ops[o].error = E429
    /\ ops[o].tweetId = 2
    /\ listeners["rateLimitWarning"] = <<"adapter", "direct">>

\* C9: every failed write operation (replyToTweet, tweet) emits exactly one
\* event and then re-raises the same error: rateLimitWarning if and only if
\* the error is rate-limited, tweetError otherwise.
C9_FailedWriteOneEventSameError ==
  \A o \in 1..Len(ops) :
    Failed(o) =>
      /\ Len(EventsOfOp(o)) = 1
      /\ EventsOfOp(o)[1].name =
           (IF ops[o].error.status = RateLimitStatus THEN "rateLimitWarning"
            ELSE "tweetError")
      /\ ops[o].raised = ops[o].error

\* C9 without the re-raise: exactly one event, of the right name
C9_OneEventOfRightName ==
  \A o \in 1..Len(ops) :
    Failed(o) =>
      /\ Len(EventsOfOp(o)) = 1
      /\ EventsOfOp(o)[1].name =
           (IF ops[o].error.status = RateLimitStatus THEN "rateLimitWarning"
            ELSE "tweetError")

\* C9's re-raise where no subscriber of the emitted event throws
C9_SameErrorUnlessListenerThrows ==
  \A o \in 1..Len(ops) :
    (Failed(o) /\ ops[o].raised # ops[o].error) =>
      /\ config.adapter
      /\ ops[o].error.status # RateLimitStatus
      /\ ops[o].raised = ErrUnhandled

\* ---------------------------------------------------------------- polling
IsMentionOf(e, p) == e.name = "newMention" /\ e.src = <<"pass", p>>

\* the newMention events of pass p, and of all passes, in emission order
MentionsOf(p) == SelectSeq(events, LAMBDA e : IsMentionOf(e, p))
AllMentions == SelectSeq(events, LAMBDA e : e.name = "newMention")

\* position of the tweet with this id in a raw batch (0: not in it)
PosIn(raw, id) ==
  IF \E i \in 1..Len(raw) : raw[i].id = id
  THEN CHOOSE i \in 1..Len(raw) : raw[i].id = id
  ELSE 0

\* C1: over passes that run one after another, the newMention events are
\* emitted in chronological order: within a pass in the reverse of the raw
\* batch order (oldest first), and no event of a later pass precedes one of
\* an earlier pass.
C1_ChronologicalOrder ==
  /\ \A p \in 1..Len(passes) :
       LET got == MentionsOf(p)
       IN  \A i, j \in 1..Len(got) :
             i < j => /\ PosIn(passes[p].raw, got[i].payload.tweetId) > 0
                      /\ PosIn(passes[p].raw, got[j].payload.tweetId) > 0
                      /\ PosIn(passes[p].raw, got[i].payload.tweetId)
                           > PosIn(passes[p].raw, got[j].payload.tweetId)
  /\ ~overlapped =>
       \A i, j \in 1..Len(AllMentions) :
         i < j => /\ AllMentions[i].src[2] <= AllMentions[j].src[2]
                  /\ AllMentions[i].payload.tweetId < AllMentions[j].payload.tweetId

\* the batch [3,2,1] was emitted as 1, 2, 3 and a later pass emitted more
C1_Witness ==
  /\ ~overlapped
  /\ Len(AllMentions) = 3
  /\ \E p \in 1..Len(passes) : Len(passes[p].raw) = 2 /\ Len(MentionsOf(p)) = 2
  /\ \E q \in 1..Len(passes) : Len(passes[q].raw) = 1 /\ Len(MentionsOf(q)) = 1
                               /\ passes[q].raw[1].id = 3

\* C2: in every pass whose fetch returns a non-empty batch the cursor is set
\* to the id of the first (newest) element of the raw batch, and this happens
\* before the first thread append or newMention emission of that pass.
C2_CursorFirstThenEffects ==
  /\ [][\A p \in 1..Len(passes) :
          (passes[p].pc = "search" /\ passes'[p].pc # "search"
             /\ passes'[p].raw # << >>) =>
            /\ lastMentionId' = passes'[p].raw[1].id
            /\ MentionsOf(p) = << >>
            /\ events' = events
            /\ threads' = threads]_vars
  /\ [][\A p \in 1..Len(passes) :
          MentionsOf(p)' # MentionsOf(p) =>
            /\ passes[p].pc = "proc"
            /\ passes[p].cursorAfter = passes[p].raw[1].id]_vars

\* a pass has set the cursor from a batch of three and emitted since
C2_Witness ==
  \E p \in 1..Len(passes) :
    /\ Len(passes[p].raw) = 3
    /\ lastMentionId = 3
    /\ Len(MentionsOf(p)) >= 1

\* C3: a pass whose search response carries no results ends with no state
\* change: cursor unchanged, no thread history created or modified, no event
\* of any kind emitted.
C3_EmptyResponseNoChange ==
  [][\A p \in 1..Len(passes) :
       (passes[p].pc = "search" /\ passes'[p].pc = "done"
          /\ passes'[p].caught = NoError) =>
         /\ lastMentionId' = lastMentionId
         /\ threads' = threads
         /\ events' = events]_vars

\* a pass ended on an empty response while a cursor, a thread and events exist
C3_Witness ==
  \E p \in 1..Len(passes) :
    /\ passes[p].pc = "done" /\ passes[p].caught = NoError /\ passes[p].raw = << >>
    /\ passes[p].seen # Undefined
    /\ lastMentionId = 2
    /\ DOMAIN threads # {}
    /\ events # << >>

\* the event and the thread entry a well-formed tweet gives rise to
EventFor(t) ==
  [message |-> t.text, threadId |-> t.conversation_id, userId |-> t.author_id,
   tweetId |-> t.id]

\* the tweets of a reversed batch that are retained under `own`
Kept(ts, own) == SelectSeq(ts, LAMBDA t : own \/ t.author_id # Me)

Payloads(evs) == [i \in 1..Len(evs) |-> evs[i].payload]
EventsFor(ts) == [i \in 1..Len(ts) |-> EventFor(ts[i])]

\* C6: a mention whose author is the account itself produces no thread
\* append and no newMention unless includeOwnTweets is true; and what a pass
\* emits for a batch is, with includeOwnTweets = true, the whole batch oldest
\* first, and with includeOwnTweets = false, that same sequence with the
\* self-authored mentions removed, under the same cursor.
C6_OwnTweetsOnlyInclusion ==
  /\ ~config.includeOwnTweets =>
       /\ \A i \in 1..Len(AllMentions) : AllMentions[i].payload.userId # Me
       /\ \A t \in DOMAIN threads : \A i \in 1..Len(threads[t]) :
            threads[t][i].senderId # Me
  /\ \A p \in 1..Len(passes) :
       (passes[p].pc = "done" /\ passes[p].caught = NoError
          /\ passes[p].raw # << >>) =>
         /\ Payloads(MentionsOf(p)) =
              EventsFor(Kept(Reverse(passes[p].raw), config.includeOwnTweets))
         /\ passes[p].cursorAfter = passes[p].raw[1].id

\* a finished pass whose batch mixed self-authored and other mentions
C6_Witness ==
  \E p \in 1..Len(passes) :
    /\ passes[p].pc = "done" /\ Len(passes[p].raw) = 3
    /\ passes[p].raw[1].author_id = Other
    /\ passes[p].raw[2].author_id = Me
    /\ passes[p].raw[3].author_id = Other
    /\ ~config.includeOwnTweets
    /\ Len(MentionsOf(p)) = 2

\* pass q is a re-invocation of the finished pass p: it was issued with the
\* cursor p left, and answers against the remote p saw
Reinvokes(q, p) ==
  /\ p # q
  /\ passes[p].pc = "done" /\ passes[p].seen # Undefined
  /\ passes[q].pc = "search"
  /\ passes[q].cursorAtBegin = passes[p].cursorAfter
  /\ lastMentionId = passes[p].cursorAfter
  /\ Len(remote) = passes[p].seen

\* C7: re-invoking a polling pass with an unchanged cursor and unchanged
\* remote state produces zero additional newMention events and zero
\* additional thread-history entries.
C7_ReinvokedPassAddsNothing ==
  [][\A q \in 1..Len(passes) :
       ((\E p \in 1..Len(passes) : Reinvokes(q, p)) /\ passes'[q].pc # "search") =>
         /\ passes'[q].pc = "done"
         /\ AllMentions' = AllMentions
         /\ threads' = threads]_vars

\* a pass that emitted mentions was re-invoked and ended without a batch
C7_Witness ==
  \E p, q \in 1..Len(passes) :
    /\ p # q
    /\ passes[p].pc = "done" /\ Len(passes[p].raw) = 2 /\ Len(MentionsOf(p)) >= 1
    /\ passes[q].pc = "done" /\ passes[q].caught = NoError
    /\ passes[q].cursorAtBegin = passes[p].cursorAfter
    /\ passes[q].seen = passes[p].seen
    /\ passes[q].raw = << >>

\* -------------------------------------------------------------- lifecycle
\* C10: if the identity lookup fails during start(), start() rejects with
\* that error, no ingestion pass is run, and the poll timer is never armed,
\* so that no timer-triggered pass occurs afterwards.
C10_FailedLookupNeverArms ==
  /\ [](\A s \in 1..Len(starts) :
          starts[s].failure # NoError =>
            /\ starts[s].pc = "rejected"
            /\ starts[s].error = starts[s].failure
            /\ starts[s].pass = None)
  /\ []((\A s \in 1..Len(starts) : starts[s].pass = None) =>
          /\ timers = {}
          /\ pollInterval = Undefined
          /\ passes = << >>)
  /\ [][\A s \in 1..Len(starts) :
          (starts[s].pc = "lookup" /\ starts'[s].pc = "rejected") =>
            /\ timers' = timers
            /\ pollInterval' = pollInterval
            /\ passes' = passes]_vars

\* every start() made so far was rejected by a failed identity lookup
C10_Witness ==
  /\ Len(starts) = 2
  /\ starts[1].failure = E500 /\ starts[1].pc = "rejected"
  /\ starts[2].failure = E429 /\ starts[2].pc = "rejected"
  /\ timers = {}

\* a step in which a stop() call that follows some start() call returns
StopReturned ==
  /\ \E s \in 1..Len(starts) : ~starts[s].stopped
  /\ Len(starts') = Len(starts)
  /\ \A s \in 1..Len(starts') : starts'[s].stopped

\* C11: when stop() returns, the poll timer is not armed, every event
\* subscriber of the service has been detached, and there are no thread
\* histories in memory.
C11_StopTearsDown ==
  [][StopReturned =>
       /\ timers' = {}
       /\ pollInterval' = Undefined
       /\ listeners' = NoListeners
       /\ threads' = << >>]_vars

\* the parts of C11 that do not depend on the timers armed in the runtime:
\* the stored handle is cancelled and forgotten, subscribers and histories go
C11_StopClearsStoredHandle ==
  [][StopReturned =>
       /\ pollInterval' = Undefined
       /\ pollInterval \notin timers'
       /\ listeners' = NoListeners
       /\ threads' = << >>]_vars

\* a step in which a timer-triggered pass starts
TimerPassStarts ==
  /\ Len(passes') = Len(passes) + 1
  /\ passes'[Len(passes')].origin = "timer"

\* C12: after stop() has been called, no further timer-triggered pass
\* starts, whatever the interleaving of start() and stop(): a timer pass
\* starts only when some start() was called after the last stop().
C12_NoTimerPassAfterStop ==
  [][TimerPassStarts => \E s \in 1..Len(starts) : ~starts[s].stopped]_vars

\* C13: no failure of a polling pass run as the timer callback is thrown or
\* rejected out of the pass, whatever subscribers are registered.
C13_TimerPassNeverRejects ==
  \A p \in 1..Len(passes) :
    passes[p].origin = "timer" => passes[p].rejected = NoError

\* C13 restricted to the services whose subscribers do not throw: no
\* adapter, or an adapter whose own emitter has an 'error' listener
C13_ContainedWhenErrorListened ==
  \A p \in 1..Len(passes) :
    (passes[p].origin = "timer" /\ passes[p].rejected # NoError) =>
      (config.adapter /\ passes[p].rejected = ErrUnhandled)

\* the events of pass p, in emission order
EventsOfPass(p) == SelectSeq(events, LAMBDA e : e.src = <<"pass", p>>)

\* a step in which the lookup or the fetch of pass p fails with `error`
FetchFails(p, error) ==
  /\ passes[p].pc \in {"lookup", "search"}
  /\ passes'[p].pc = "done"
  /\ passes'[p].caught = error

\* C14: a fetch that fails with a rate-limit error emits exactly one
\* rateLimitWarning with empty tweetId, no newMention and no pollError, and
\* leaves the cursor untouched: a pass begun next computes the since_id the
\* failed pass used (when no other pass moved the cursor in between).
C14_RateLimitedFetch ==
  /\ [][\A p \in 1..Len(passes) :
          FetchFails(p, E429) =>
            /\ events' = Append(events,
                 Logged("rateLimitWarning",
                        [tweetId |-> EmptyId, message |-> "", error |-> E429],
                        <<"pass", p>>))
            /\ lastMentionId' = lastMentionId
            /\ threads' = threads
            /\ (passes[p].pc = "search" /\ lastMentionId = passes[p].cursorAtBegin) =>
                 SinceParam(lastMentionId', config.sinceId) = passes[p].since]_vars
  /\ [](\A p \in 1..Len(passes) :
          (passes[p].caught = E429 /\ passes[p].raw = << >>) =>
            /\ Len(EventsOfPass(p)) = 1
            /\ EventsOfPass(p)[1].name = "rateLimitWarning"
            /\ EventsOfPass(p)[1].payload.tweetId = EmptyId)

\* a rate-limited fetch with a cursor set, and the next pass fetching the
\* same window
C14_Witness ==
  /\ Len(passes) = 2
  /\ passes[1].caught = E429 /\ passes[1].since = 1
  /\ passes[2].pc = "proc" /\ passes[2].since = 1
  /\ Len(EventsOfPass(1)) = 1

\* C15: a pass that fails with an error not classified as rate-limited
\* emits exactly one pollError and no rateLimitWarning, and the timer stays
\* armed: the next tick can start a new pass.
C15_PollErrorKeepsTimer ==
  /\ [][\A p \in 1..Len(passes) :
          FetchFails(p, E500) =>
            /\ events' = Append(events,
                 Logged("pollError", [error |-> E500], <<"pass", p>>))
            /\ timers' = timers
            /\ pollInterval' = pollInterval
            /\ running' = None /\ inTask' = None]_vars
  /\ [](\A p \in 1..Len(passes) :
          (passes[p].caught = E500 /\ passes[p].raw = << >>) =>
            /\ Len(EventsOfPass(p)) = 1
            /\ EventsOfPass(p)[1].name = "pollError")

\* a timer-triggered pass failed with a pollError while the timer was
\* armed, and the timer is still armed
C15_Witness ==
  /\ Len(passes) = 2
  /\ passes[2].origin = "timer" /\ passes[2].caught = E500
  /\ passes[1].caught = E500
  /\ timers # {}

\* C16: searchTweets and getMyProfile apply the failure policy of
\* replyToTweet: a failure publishes exactly one event (rateLimitWarning
\* for a rate-limited error, the operation's own error event otherwise)
\* and the error is re-raised.
C16_ReadFailurePolicy ==
  \A o \in 1..Len(ops) :
    (ops[o].kind \in {"getMyProfile", "searchTweets"} /\ Failed(o)) =>
      /\ Len(EventsOfOp(o)) = 1
      /\ (EventsOfOp(o)[1].name = "rateLimitWarning") <=> IsRateLimited(ops[o].error)
      /\ ops[o].raised = ops[o].error

\* the part of C16 the code does: the error is re-raised to the caller
C16_ReadRethrows ==
  \A o \in 1..Len(ops) :
    (ops[o].kind \in {"getMyProfile", "searchTweets"} /\ Failed(o)) =>
      ops[o].raised = ops[o].error

\* the passes begun by start() calls
StartPasses == {p \in 1..Len(passes) : passes[p].origin = "start"}

C18_AtMostOneTimer ==
  /\ [](Cardinality(timers) <= 1)
  /\ [][StopReturned => timers' = {}]_vars

\* the since_id the claim prescribes for a fetch begun with this cursor
PrescribedSince(cursor, seed) ==
  IF cursor # Undefined THEN cursor
  ELSE IF seed # Undefined /\ seed # Sentinel THEN seed
  ELSE Undefined

\* a step in which pass p issues its search request
IssuesSearch(p) ==
  /\ passes'[p].pc = "search"
  /\ p > Len(passes) \/ passes[p].pc = "lookup"

\* C19: each fetch carries since_id equal to the tracked cursor when one
\* is set, otherwise the configured seed when present and not "0",
\* otherwise none; no search request is ever issued with since_id "0".
C19_SinceIdNeverSentinel ==
  [][\A p \in 1..Len(passes') :
       IssuesSearch(p) =>
         /\ passes'[p].since = PrescribedSince(lastMentionId, config.sinceId)
         /\ passes'[p].since # Sentinel]_vars

\* the first sentence of C19 alone
C19_SelectionOrder ==
  [][\A p \in 1..Len(passes') :
       IssuesSearch(p) =>
         passes'[p].since = PrescribedSince(lastMentionId, config.sinceId)]_vars

\* C20: the cursor is never rolled back: once set it is never unset and
\* never moves to an older id, whatever the passes return.
C20_CursorNeverRolledBack ==
  [][lastMentionId # Undefined =>
       /\ lastMentionId' # Undefined
       /\ lastMentionId' >= lastMentionId]_vars

\* a step in which the identity lookup of pass p fails
LookupFails(p) == passes[p].pc = "lookup" /\ passes'[p].pc = "done"

\* C21 as stated: a failed identity lookup inside a pass is propagated to
\* the caller of the pass (the pass rejects with the lookup's error), and
\* the pass issues no search.
C21_LookupFailurePropagates ==
  [][\A p \in 1..Len(passes) :
       LookupFails(p) =>
         /\ passes'[p].rejected = passes'[p].caught
         /\ passes'[p].raw = << >>]_vars

\* C21: a failed identity lookup inside a pass ends the pass without a
\* search; the failure is not raised to the caller of the pass but published
\* as exactly one event, rateLimitWarning when rate-limited and pollError
\* otherwise, and the cursor and the threads are left as they were.
C21_LookupFailureSurfacesAsEvent ==
  /\ [][\A p \in 1..Len(passes) :
          (passes[p].pc = "lookup" /\ passes'[p].pc # "lookup") =>
            \/ passes'[p].pc = "search" /\ passes'[p].caught = NoError
            \/ /\ passes'[p].pc = "done"
               /\ passes'[p].caught \in ApiErrors
               /\ passes'[p].rejected # passes'[p].caught
               /\ Len(events') = Len(events) + 1
               /\ events'[Len(events')].src = <<"pass", p>>
               /\ events'[Len(events')].payload.error = passes'[p].caught
               /\ events'[Len(events')].name =
                    IF passes'[p].caught.status = RateLimitStatus
                    THEN "rateLimitWarning" ELSE "pollError"
               /\ lastMentionId' = lastMentionId
               /\ threads' = threads]_vars
  /\ [][\A p \in 1..Len(passes) :
          passes[p].pc = "done" => passes'[p].pc = "done"]_vars

\* a pass failed in its identity lookup: no identity is cached although a
\* pass has ended with an error
C21_Witness ==
  /\ currentUsername = NoString
  /\ \E p \in 1..Len(passes) :
       /\ passes[p].pc = "done" /\ passes[p].caught = E500
       /\ Len(EventsOfPass(p)) = 1
       /\ Len(remote) > 0

\* C25: a successful replyToTweet returns the platform response unmodified
\* and emits no event.
C25_ReplySuccess ==
  /\ [](\A o \in 1..Len(ops) :
          (ops[o].kind = "reply" /\ ops[o].pc = "returned") =>
            /\ ops[o].response = PlatformResponse
            /\ ops[o].result = ops[o].response
            /\ ops[o].raised = NoError
            /\ EventsOfOp(o) = << >>)
  /\ [][\A o \in 1..Len(ops) :
          (ops[o].kind = "reply" /\ ops[o].pc = "await" /\ ops'[o].pc = "returned") =>
            events' = events]_vars

\* a reply succeeded while subscribers to tweetError and rateLimitWarning listen
C25_Witness ==
  \E o \in 1..Len(ops) :
    /\ ops[o].kind = "reply" /\ ops[o].pc = "returned"
    /\ listeners["tweetError"] # << >>
    /\ listeners["rateLimitWarning"] # << >>

\* the payload fields documented for each event name
DocumentedFields(name) ==
  CASE name = "newMention" -> {"threadId", "userId", "tweetId", "message"}
    [] name = "rateLimitWarning" -> {"tweetId", "message", "error"}
    [] name = "pollError" -> {"error"}
    [] name = "tweetError" -> {"tweetId", "message", "error"}

\* C26: every emitted event carries the payload documented for its name,
\* whichever operation emits it.
C26_DocumentedPayloads ==
  \A i \in 1..Len(events) :
    DOMAIN events[i].payload = DocumentedFields(events[i].name)

\* C26 for the events of polling and of replyToTweet only
C26_PayloadsExceptTweet ==
  \A i \in 1..Len(events) :
    (events[i].src[1] = "pass"
       \/ (events[i].src[1] = "op" /\ ops[events[i].src[2]].kind = "reply")) =>
      DOMAIN events[i].payload = DocumentedFields(events[i].name)

\* appends counted for thread t in the history variable ap
CountOf(ap, t) == IF t \in DOMAIN ap THEN ap[t] ELSE 0

\* all but the last element
Front(h) == SubSeq(h, 1, Len(h) - 1)

\* C27: within a pass, the thread append of a mention happens before its
\* newMention publish, and both before those of the next mention: at the
\* publish of mention N its thread ends with N, exactly one entry was added
\* since the previous publish, and no other thread changed.
C27_AppendThenPublishInTurn ==
  [][\A p \in 1..Len(passes) :
       MentionsOf(p)' # MentionsOf(p) =>
         LET e == events'[Len(events')].payload
             h == Head(passes[p].todo)
             old == IF e.threadId \in DOMAIN threads THEN threads[e.threadId] ELSE << >>
         IN  /\ Len(events') = Len(events) + 1
             /\ e.tweetId = h.id
             /\ passes'[p].todo = Tail(passes[p].todo)
             /\ e.threadId \in DOMAIN threads'
             /\ LET new == threads'[e.threadId]
                IN  /\ Len(new) >= 1
                    /\ new[Len(new)].content = e.message
                    /\ new[Len(new)].senderId = e.userId
                    /\ \E k \in 0..Len(old) : Front(new) = SubSeq(old, k + 1, Len(old))
             /\ CountOf(appended', e.threadId) = CountOf(appended, e.threadId) + 1
             /\ \A t \in DOMAIN threads : t # e.threadId => threads'[t] = threads[t]]_vars

\* the first mention of a batch was appended and published while the
\* second is still to be handled
C27_Witness ==
  \E p \in 1..Len(passes) :
    /\ passes[p].pc = "proc"
    /\ Len(passes[p].raw) >= 2
    /\ Len(MentionsOf(p)) = 1
    /\ Len(passes[p].todo) >= 1
    /\ Appended(1) = 1

\* C28: at most one ingestion pass is in flight at any time: a timer tick
\* never starts a pass while an earlier pass is between issuing its fetch and
\* finishing its per-mention processing.
C28_TickNeverOverlaps ==
  [][TimerPassStarts =>
       \A q \in 1..Len(passes) : passes[q].pc \notin {"search", "proc"}]_vars

\* a step in which a "who am I" lookup is issued, by start() or by a pass
IssuesLookup ==
  \/ Len(starts') = Len(starts) + 1
  \/ /\ Len(passes') = Len(passes) + 1
     /\ passes'[Len(passes')].pc = "lookup"

\* C29: the identity lookup is issued only when no identity is cached, by
\* passes and by start() alike, and the cached identity never changes.
C29_LookupOnlyWhenUncached ==
  /\ [][IssuesLookup => currentUsername = NoString]_vars
  /\ [][currentUsername # NoString =>
          /\ currentUsername' = currentUsername
          /\ currentUserId' = currentUserId]_vars

\* the part of C29 about passes: a pass looks up only when nothing is cached
C29_PassLooksUpOnlyUncached ==
  [][(/\ Len(passes') = Len(passes) + 1
      /\ passes'[Len(passes')].pc = "lookup") => currentUsername = NoString]_vars

\* the newMention payload the normalisation rules prescribe for raw record h
Normalised(h) ==
  [message |-> IF h.text = NoString THEN "" ELSE h.text,
   threadId |-> IF h.conversation_id = Undefined THEN h.id ELSE h.conversation_id,
   userId |-> IF h.author_id = NoString THEN "unknown" ELSE h.author_id,
   tweetId |-> h.id]

\* a step in which pass p handles the retained record at the head of its batch
HandlesHead(p) ==
  /\ passes[p].pc = "proc" /\ Len(passes[p].todo) > 0
  /\ ~(Head(passes[p].todo).author_id = currentUserId /\ ~config.includeOwnTweets)
  /\ passes'[p].todo = Tail(passes[p].todo)

\* C22: for every raw record over all combinations of present and missing
\* fields, a record with an id is emitted as newMention with message = text
\* or "", threadId = conversation_id or its own id, userId = author_id or
\* "unknown", tweetId = id, none of the three ids empty; a record without an
\* id is dropped: no thread entry and no event.
C22_NormalisedOrDropped ==
  [][\A p \in 1..Len(passes) :
       HandlesHead(p) =>
         LET h == Head(passes[p].todo)
             n == Normalised(h)
         IN  IF h.id # Undefined
             THEN /\ events' = Append(events, Logged("newMention", n, <<"pass", p>>))
                  /\ n.tweetId # Undefined /\ n.threadId # Undefined
                  /\ n.userId \notin {"", NoString}
                  /\ n.threadId \in DOMAIN threads'
                  /\ LET new == threads'[n.threadId]
                     IN  /\ new[Len(new)].senderId = n.userId
                         /\ new[Len(new)].content = n.message
             ELSE /\ events' = events
                  /\ threads' = threads]_vars

\* a record with only an id was published with every fallback, and a record
\* without an id went through a finished pass
C22_Witness ==
  /\ \E i \in 1..Len(events) :
       events[i].payload =
         [message |-> "", threadId |-> 2, userId |-> "unknown", tweetId |-> 2]
  /\ \E p \in 1..Len(passes) :
       /\ passes[p].pc = "done"
       /\ \E j \in 1..Len(passes[p].raw) : passes[p].raw[j].id = Undefined

\* ------------------------------------------------------- retryWithBackoff
\* C23: the retry loop invokes the operation at most maxRetries+1 times (6
\* by default) and always terminates: a rate-limited failure is retried while
\* fewer than maxRetries retries have been made, after which the error is
\* re-raised unchanged; a failure that is not rate-limited is re-raised at once;
\* a success returns the operation's result.
C23_RetryBoundedAndTerminates ==
  /\ [](retry.pc # "idle" =>
          retry.calls <= (IF retry.given.maxRetries = Undefined
                          THEN 6 ELSE retry.given.maxRetries + 1))
  /\ [][retry.pc = "call" /\ retry'.pc # "call" =>
          LET limit == IF retry.given.maxRetries = Undefined
                       THEN 5 ELSE retry.given.maxRetries
              retried == retry'.pc = "wait"
          IN  \/ /\ retry'.pc = "returned"
                 /\ retry'.result = OperationResult
                 /\ retry'.raised = NoError
              \/ /\ retry'.pc \in {"wait", "raised"}
                 /\ retry'.lastError \in ApiErrors
                 /\ retried <=> (retry'.lastError = E429 /\ retry.retries < limit)
                 /\ ~retried => retry'.raised = retry'.lastError
                 /\ retry'.result = NoResult]_vars
  /\ [][retry.pc = "wait" /\ retry'.pc # "wait" =>
          retry'.pc = "call" /\ retry'.retries = retry.retries + 1]_vars
  /\ (retry.pc \in {"call", "wait"}) ~> (retry.pc \in {"returned", "raised"})

\* the default budget is used up by rate-limited failures: six invocations,
\* then the last error is raised
C23_Witness ==
  /\ retry.pc = "raised"
  /\ retry.given.maxRetries = Undefined
  /\ retry.calls = 6
  /\ retry.raised = E429

\* C30: the wait before the k-th retry (k = 0, 1, ...) is baseDelay * 2^k when
\* the error carries no reset timestamp (5000, 10000, 20000, 40000, 80000 ms by
\* default); with a reset timestamp it is the time until reset plus 5000 ms,
\* whatever k is.
C30_WaitTimes ==
  retry.pc # "idle" =>
    \A i \in 1..Len(retry.waits) :
      LET w == retry.waits[i]
          base == IF retry.given.baseDelay = Undefined
                  THEN 5000 ELSE retry.given.baseDelay
      IN  /\ w.k = i - 1
          /\ IF w.resetTime = Undefined
             THEN /\ w.waitTime = base * (2 ^ w.k)
                  /\ retry.given.baseDelay = Undefined =>
                       w.waitTime = <<5000, 10000, 20000, 40000, 80000>>[i]
             ELSE w.waitTime = (w.resetTime * 1000 - w.now) + 5000

\* five waits under the defaults, the first by a reset timestamp and the
\* last by backoff
C30_Witness ==
  /\ retry.pc # "idle"
  /\ retry.given.baseDelay = Undefined
  /\ Len(retry.waits) = 5
  /\ retry.waits[1].resetTime = 60 /\ retry.waits[1].waitTime = 65000 - retry.waits[1].now
  /\ retry.waits[5].resetTime = Undefined /\ retry.waits[5].waitTime = 80000

\* --------------------------------------------------------- LLMToolAdapter
\* C24: every LLMToolAdapter operation resolves and never rejects; its
\* response has success = true exactly when the underlying TwitterService call
\* resolved, and otherwise success = false with error being the error the
\* underlying call raised.
C24_AdapterNeverRejects ==
  \A a \in 1..Len(adapterCalls) :
    LET c == adapterCalls[a]
        i == c.target[2]
        resolved == CASE c.kind = "start" -> starts[i].pc = "resolved"
                      [] c.kind = "stop" -> TRUE
                      [] OTHER -> ops[i].pc = "returned"
        raisedError == IF c.kind = "start" THEN starts[i].error ELSE ops[i].raised
    IN  /\ c.pc \in {"await", "resolved"}
        /\ c.pc = "resolved" =>
             /\ c.response.success <=> resolved
             /\ ~c.response.success =>
                  /\ c.kind # "stop"
                  /\ raisedError # NoError
                  /\ c.response.error = raisedError

\* one adapter call answered with success, another with the error its
\* service call raised
C24_Witness ==
  \E a, b \in 1..Len(adapterCalls) :
    /\ adapterCalls[a].pc = "resolved" /\ adapterCalls[a].response.success
    /\ adapterCalls[b].pc = "resolved" /\ ~adapterCalls[b].response.success
    /\ adapterCalls[b].response.error \in ApiErrors \cup {ErrUnhandled}
\* ------------------------------------------------- ThreadStore, isolation
\* C31: threads are independent: an append to thread A, with the eviction it
\* triggers, leaves the history of every other thread B unchanged, and
\* eviction in A is decided only by A's own length.
C31_ThreadsIndependent ==
  [][\A a \in ThreadIds :
       CountOf(appended', a) = CountOf(appended, a) + 1 =>
         LET old == getThreadContext(threads, a)
             limit == config.threadHistoryLimit
         IN  /\ \A b \in ThreadIds \ {a} :
                  /\ b \in DOMAIN threads' <=> b \in DOMAIN threads
                  /\ b \in DOMAIN threads => threads'[b] = threads[b]
             /\ Len(threads'[a]) < Len(old) + 1 => Len(old) + 1 > limit
             /\ Len(old) + 1 <= limit =>
                  threads'[a] = Append(old, TestMessage(CountOf(appended, a) + 1))]_vars

\* thread 1 has evicted while thread 2 still holds everything appended to it
C31_Witness ==
  /\ config.threadHistoryLimit = 2
  /\ Appended(1) = 4 /\ Len(threads[1]) = 2
  /\ Appended(2) = 2 /\ threads[2] = <<TestMessage(1), TestMessage(2)>>
\* --------------------------------------------------------------- EventBus
\* C32: each publish of an event calls every subscriber currently registered
\* for that event name exactly once, synchronously, in the order in which they
\* subscribed, and calls no subscriber of any other event name.
C32_EverySubscriberCalled ==
  \A i \in 1..Len(events) : events[i].called = Len(events[i].listeners)
\* ------------------------------------------------- failure inside a batch
\* pass p fetched a batch and then failed while processing it
FailedInBatch(p) ==
  /\ passes[p].pc = "done"
  /\ passes[p].caught # NoError
  /\ Len(passes[p].raw) > 0

\* the ids of p's batch that p had not handed to handleMention when it failed
Unprocessed(p) ==
  LET mine == MentionsOf(p)
      last == mine[Len(mine)].payload.tweetId
  IN  {passes[p].raw[i].id : i \in 1..Len(passes[p].raw)} \ (1..last)

\* C34: if per-mention processing fails partway through a batch (a newMention
\* subscriber throws), the pass stops there and emits exactly one pollError (or
\* rateLimitWarning), the cursor stays at the batch's newest id, and the
\* mentions of that batch not yet processed are emitted neither by that pass
\* nor by any later pass.
\* (A later pass is one that began after the failed pass had ended.)
C34_FailedBatchIsDropped ==
  /\ [](\A p \in 1..Len(passes) :
          FailedInBatch(p) =>
            LET mine == EventsOfPass(p)
                reports == SelectSeq(mine, LAMBDA e :
                                       e.name \in {"pollError", "rateLimitWarning"})
            IN  /\ Len(reports) = 1
                /\ mine[Len(mine)] = reports[1]
                /\ reports[1].name = IF IsRateLimited(passes[p].caught)
                                     THEN "rateLimitWarning" ELSE "pollError"
                /\ reports[1].payload.error = passes[p].caught
                /\ passes[p].cursorAfter = passes[p].raw[1].id
                /\ \A q \in 1..Len(passes) :
                     (q = p \/ p \in passes[q].before) =>
                       \A i \in 1..Len(events) :
                         IsMentionOf(events[i], q) =>
                           events[i].payload.tweetId \notin Unprocessed(p))
  /\ [][\A p \in 1..Len(passes) :
          (~FailedInBatch(p) /\ FailedInBatch(p)') =>
            /\ lastMentionId' = passes[p].raw[1].id
            /\ lastMentionId' = lastMentionId]_vars

\* a throwing subscriber ended the first pass at the oldest of three mentions;
\* the next pass fetched from the batch's newest id and found nothing
C34_Witness ==
  /\ Len(passes) = 2
  /\ FailedInBatch(1) /\ passes[1].caught = ErrListener
  /\ Len(passes[1].raw) = 3 /\ Len(MentionsOf(1)) = 1
  /\ Cardinality(Unprocessed(1)) >= 1
  /\ 1 \in passes[2].before
  /\ passes[2].pc = "done" /\ passes[2].since = 3 /\ MentionsOf(2) = << >>
\* ------------------------------------------------------------ completeness
\* a newMention with this tweet id has been emitted
Emitted(id) ==
  \E i \in 1..Len(events) :
    events[i].name = "newMention" /\ events[i].payload.tweetId = id

\* a fetch succeeded while mention `id` was on the platform, newer than the
\* since_id of the request and not self-authored
FetchedPast(id) ==
  \E p \in 1..Len(passes) :
    /\ passes[p].pc = "proc"
    /\ id <= passes[p].seen
    /\ (passes[p].since = Undefined \/ id > passes[p].since)
    /\ ~SkipOwn(remote[id], currentUserId, config.includeOwnTweets)

MentionIdsOf(t) ==
  {events[i].payload.tweetId :
     i \in {j \in 1..Len(events) : /\ events[j].name = "newMention"
                                    /\ events[j].payload.threadId = t}}

\* C35: over any execution, including timer ticks that fire while an earlier
\* pass is still awaiting its fetch, no tweet id is emitted as newMention more
\* than once and no thread history receives the same mention twice.
C35_NoDuplicateMention ==
  /\ \A i, j \in 1..Len(events) :
       (i < j /\ events[i].name = "newMention" /\ events[j].name = "newMention")
         => events[i].payload.tweetId # events[j].payload.tweetId
  /\ \A t \in DOMAIN threads : Len(threads[t]) <= Cardinality(MentionIdsOf(t))

\* ------------------------------------------------------------- after stop
\* stop() has returned after the last start() call
StoppedForGood == Len(starts) > 0 /\ \A s \in 1..Len(starts) : starts[s].stopped

\* C37: once stop() has returned and start() is not called again, the thread
\* store stays empty and the cursor no longer changes, even if an ingestion
\* pass was awaiting its fetch at the moment stop() was called.
C37_QuietAfterStop ==
  [][(StoppedForGood /\ starts' = starts) =>
       /\ threads' = << >>
       /\ lastMentionId' = lastMentionId]_vars

\* a step of stop() that ends a start() not stopped before
StopStep == \E s \in 1..Len(starts) : ~starts[s].stopped /\ starts'[s].stopped

\* C38: stop() leaves the cursor and the cached account identity unchanged,
\* so a later start() on the same instance fetches from the last cursor and
\* does not re-emit any mention that was emitted before the stop.
C38_RestartResumes ==
  /\ [][StopStep => /\ lastMentionId' = lastMentionId
                    /\ currentUserId' = currentUserId
                    /\ currentUsername' = currentUsername]_vars
  /\ [][\A s \in 1..Len(starts) :
          (starts[s].pc = "lookup" /\ starts'[s].pc = "pass") =>
            passes'[starts'[s].pass].since = lastMentionId]_vars
  /\ [](\A s \in 1..Len(starts) :
          starts[s].pass # None =>
            \A i \in 1..Len(events), j \in 1..starts[s].emitted :
              (IsMentionOf(events[i], starts[s].pass) /\ events[j].name = "newMention")
                => events[i].payload.tweetId # events[j].payload.tweetId)

\* mention 1 was emitted, stop() returned, and the pass of the second start()
\* fetched with since_id 1 and emitted nothing
C38_Witness ==
  /\ Len(starts) = 2
  /\ starts[1].stopped /\ ~starts[2].stopped
  /\ starts[2].emitted >= 1 /\ Emitted(1)
  /\ starts[2].pass # None
  /\ passes[starts[2].pass].pc = "done"
  /\ passes[starts[2].pass].since = 1
  /\ MentionsOf(starts[2].pass) = << >>
\* ------------------------------------------------ adapter, stop then start
\* how many times the adapter's forwarding subscriber was called for emit e
ForwardedCount(e) ==
  Cardinality({k \in 1..e.called : e.listeners[k] = "adapter"})

\* pass p began in or after an adapter.start() that followed an adapter.stop()
AfterRestart(p) ==
  \E i, j \in 1..Len(adapterCalls) :
    /\ i < j
    /\ adapterCalls[i].kind = "stop"
    /\ adapterCalls[j].kind = "start"
    /\ starts[adapterCalls[j].target[2]].pass # None
    /\ p >= starts[adapterCalls[j].target[2]].pass

\* C36: after LLMToolAdapter.stop() followed by LLMToolAdapter.start() on the
\* same adapter, every newMention of the underlying service is still forwarded
\* to the adapter's subscribers as exactly one newTwitterMessage, as it was
\* before the stop.
C36_ForwardedAfterRestart ==
  \A i \in 1..Len(events) :
    (events[i].name = "newMention" /\ AfterRestart(events[i].src[2]))
      => ForwardedCount(events[i]) = 1

\* before any stop every newMention reaches the forwarding subscriber once
C36_ForwardedBeforeStop ==
  \A i \in 1..Len(events) :
    (/\ events[i].name = "newMention"
     /\ \A a \in 1..Len(adapterCalls) : adapterCalls[a].kind # "stop")
      => ForwardedCount(events[i]) = 1
\* ------------------------------------------------- request operations, frame
\* C39: replyToTweet, tweet, searchTweets and getMyProfile, whether they
\* succeed or fail and however they interleave with polling passes, never
\* change the cursor, the cached identity, any thread history or the timer
\* state.
C39_RequestsLeaveStateAlone ==
  [][ops' # ops =>
       /\ lastMentionId' = lastMentionId
       /\ currentUserId' = currentUserId
       /\ currentUsername' = currentUsername
       /\ threads' = threads
       /\ pollInterval' = pollInterval
       /\ timers' = timers]_vars

\* a read succeeded and a write failed while the service was started, had a
\* cursor and a thread, and a pass was awaiting its fetch
C39_Witness ==
  /\ \E o \in 1..Len(ops) :
       ops[o].kind \in {"getMyProfile", "searchTweets"} /\ ops[o].pc = "returned"
  /\ \E o \in 1..Len(ops) :
       ops[o].kind \in {"reply", "tweet"} /\ ops[o].pc = "raised"
  /\ timers # {} /\ pollInterval # Undefined
  /\ lastMentionId = 1 /\ 1 \in DOMAIN threads
  /\ \E p \in InFlight : passes[p].pc = "search"
====
